---- MODULE Spec2Model ----
(***************************************************************************)
(* A model of the adaptive cycle orchestration core of ai-factory:         *)
(* runtime.py (process lifecycle), router.py (provider selection and       *)
(* failover), evolution.py (evaluation, proposal and application of        *)
(* adjustments), guardrails.py (command safety) and the cli.py commands    *)
(* that drive them.                                                        *)
(*                                                                         *)
(* Several specifications share the variables below; each keeps the        *)
(* variables of the other parts parked at their initial value.            *)
(*   Spec        process lifecycle: start_loop / stop_loop / drivers       *)
(*   SpecProbe   is_running as a function of the PID file and the          *)
(*               process table                                             *)
(*   SpecRouter  select_provider and failover on bounded provider lists    *)
(*   SpecEvolve  evaluations appended cycle by cycle, suggestion passes    *)
(*   SpecSuggest suggest_adjustments on evaluation lists handed in         *)
(*   SpecLoop    cli.up, the driver's cycles and the adjustment passes     *)
(*   SpecApply   apply_adjustments called again and again on its result    *)
(*   SpecEvaluate evaluate_cycle on one cycle log                          *)
(*   SpecSafety  check_command_safety on one command                       *)
(*   SpecMemory  backup_consensus / restore_consensus and rewrites         *)
(*   SpecTrends  analyze_trends on evaluation lists and windows            *)
(*   SpecReaders the cycle log parsers, get_status and get_latest_cycle    *)
(***************************************************************************)
EXTENDS Integers, Sequences, FiniteSets, TLC

VARIABLES
    \* ---- process lifecycle (runtime.py) ----
    scriptPresent,  \* scripts/auto-loop.sh is a file
    pidFile,        \* content of <output_dir>/.auto-loop.pid
    procs,          \* the OS process table, pid -> process record
    pc,             \* per caller: position inside start_loop / stop_loop
    ret,            \* per caller: the pid start_loop returned (0: none)
    executed,       \* external commands the controller has run
    safetyChecked,  \* commands that were passed to check_command_safety
    \* ---- is_running as a function ----
    probe,          \* outcome of the last is_running call
    \* ---- provider routing (router.py) ----
    providers,      \* the provider list handed to the router
    installed,      \* engine names that resolve to an executable on PATH
    envSet,         \* environment variables that are set and non-empty
    route,          \* the last router call: its arguments and its result
    \* ---- evaluation and adjustment (evolution.py) ----
    evaluations,    \* the CycleEvaluation records accumulated so far
    suggested,      \* the last suggest_adjustments pass and whether it is current
    \* ---- the loop around them (cli.py, runtime.py) ----
    configFile,     \* the FactoryConfig stored in company.yaml
    generatedFrom,  \* the FactoryConfig the files under output_dir were generated from
    applied,        \* the FactoryConfig the last apply_adjustments call returned
    logs,           \* the cycle logs the driver has written, oldest first
    lastCycle,      \* what the most recent cycle ran with
    evolveRuns,     \* how often the evolve command has run
    \* ---- single calls, with their arguments and results ----
    lastApply,      \* the last apply_adjustments call
    evalCall,       \* the last evaluate_cycle call
    safetyCall,     \* the last check_command_safety call
    \* ---- the consensus file and its backups (memory.py) ----
    clock,          \* the wall clock, in ticks
    consensus,      \* content of memories/consensus.md
    backups,        \* content of the backup file of each timestamp
    tickets,        \* the backup paths returned so far, with what was backed up
    memCall,        \* the last operation on the consensus file
    \* ---- single calls of the readers (runtime.py, evolution.py) ----
    trendCall,      \* the last analyze_trends call
    parseCall,      \* the last parse of a cycle log by both parsers
    statusCall,     \* the last get_status call
    latestCall      \* the last get_latest_cycle call

lifeVars == <<scriptPresent, pidFile, procs, pc, ret, executed, safetyChecked>>
routerVars == <<providers, installed, envSet, route>>
evoVars == <<evaluations, suggested>>
loopVars == <<configFile, generatedFrom, applied, logs, lastCycle, evolveRuns>>
memVars == <<clock, consensus, backups, tickets, memCall>>
readVars == <<trendCall, parseCall, statusCall, latestCall>>
auxVars == <<lastApply, evalCall, safetyCall, memVars, readVars>>
vars == <<scriptPresent, pidFile, procs, pc, ret, executed, safetyChecked, probe,
          providers, installed, envSet, route, evaluations, suggested,
          configFile, generatedFrom, applied, logs, lastCycle, evolveRuns,
          lastApply, evalCall, safetyCall, clock, consensus, backups, tickets,
          memCall, trendCall, parseCall, statusCall, latestCall>>

----------------------------------------------------------------------------
(* Bounds *)

NumCallers == 2     \* concurrent invocations of the tool on one output_dir
MaxPid == 3         \* process ids the OS hands out in a run

Callers == 1..NumCallers
Pids == 1..MaxPid

----------------------------------------------------------------------------
(* The process table and the PID file *)

\* A slot of the process table.  owner "self" is the user running the tool,
\* "other" is any other (non-root) user of the machine.
NoEnv ==
    [ENGINE |-> "", MODEL |-> "", LOOP_INTERVAL |-> 0,
     CYCLE_TIMEOUT_SECONDS |-> 0, MAX_CONSECUTIVE_ERRORS |-> 0]

NoProc == [state |-> "none", owner |-> "self", fg |-> FALSE, env |-> NoEnv]

\* A process that has ended: its pid is not handed out again in a run.
Gone == [state |-> "exited", owner |-> "self", fg |-> FALSE, env |-> NoEnv]


\* What the PID file can hold.  "absent": no file.  "text": text that is not
\* an integer literal.  "binary": bytes that are not valid UTF-8.
\* "int": text that strips to the (positive) integer in field int.
\* "bigint": an integer literal beyond the range of the C type pid_t, such
\* as 2147483648.
Absent == [kind |-> "absent", int |-> 0]
PidText(n) == [kind |-> "int", int |-> n]
PidContents ==
    {Absent, [kind |-> "text", int |-> 0], [kind |-> "binary", int |-> 0],
     [kind |-> "bigint", int |-> 0]}
    \cup {PidText(n) : n \in Pids}

\* os.kill(pid, 0) issued by the tool's user: "ok", or the exception raised.
\* A pid beyond pid_t never reaches the kernel: the conversion of the
\* argument raises OverflowError.
Kill0(f) ==
    LET pid == f.int IN
    IF f.kind = "bigint" THEN "OverflowError"
    ELSE IF pid \notin Pids \/ procs[pid].state # "alive" THEN "ProcessLookupError"
    ELSE IF procs[pid].owner # "self" THEN "PermissionError"
    ELSE "ok"

\* A mutant of is_running: a probe that succeeds falls through to the
\* final "return False".
is_running_fallthrough ==
    CASE pidFile.kind = "absent" -> "False"
      [] pidFile.kind = "binary" -> "UnicodeDecodeError"
      [] pidFile.kind = "text" -> "False"
      [] OTHER ->
            LET r == Kill0(pidFile) IN
            CASE r \in {"ok", "ProcessLookupError", "PermissionError"} -> "False"
              [] OTHER -> r

\* is_running(output_dir): "True", "False", or the exception that escapes.
is_running ==
    CASE pidFile.kind = "absent" -> "False"              \* not pid_file.is_file()
      [] pidFile.kind = "binary" -> "UnicodeDecodeError" \* read_text, outside any try
      [] pidFile.kind = "text" -> "False"                \* int() raised ValueError
      [] OTHER ->
            LET r == Kill0(pidFile) IN
            CASE r = "ok" -> "True"
              [] r \in {"ProcessLookupError", "PermissionError"} -> "False"
              [] OTHER -> r                              \* OverflowError is no OSError

----------------------------------------------------------------------------
(* The configuration object (config.py) as far as the core reads it *)

\* The FactoryConfig of a small company.
BaseConfig ==
    [company |-> "acme",
     agents |-> <<[role |-> "ceo", layer |-> "strategy", model |-> "sonnet",
                   skills |-> <<>>],
                  [role |-> "cfo", layer |-> "business", model |-> "opus",
                   skills |-> <<"budgeting">>]>>,
     workflows |-> <<[id |-> "ship", convergence_cycles |-> 3]>>,
     runtime |-> [providers |-> <<[engine |-> "claude", model |-> "sonnet"]>>,
                  loop_interval |-> 30, cycle_timeout |-> 1800,
                  max_consecutive_errors |-> 5],
     guardrails |-> [forbidden |-> <<"rm -rf /">>, workspace |-> "projects/"]]

\* _build_env_from_config(config, output_dir): the variables it sets; ENGINE
\* and MODEL are left as inherited ("") when the provider list is empty.
build_env_from_config(config) ==
    LET runtime == config.runtime
        ps == runtime.providers
    IN  [ENGINE |-> IF ps # <<>> THEN ps[1].engine ELSE "",
         MODEL |-> IF ps # <<>> THEN ps[1].model ELSE "",
         LOOP_INTERVAL |-> runtime.loop_interval,
         CYCLE_TIMEOUT_SECONDS |-> runtime.cycle_timeout,
         MAX_CONSECUTIVE_ERRORS |-> runtime.max_consecutive_errors]

----------------------------------------------------------------------------
(* start_loop, stop_loop and the driver processes *)

FreePids == {p \in Pids : procs[p].state = "none"}
NextPid == CHOOSE p \in FreePids : \A q \in FreePids : p <= q

Terminal == {"returned", "raised", "missing", "error", "stopped", "stopFailed"}

\* start_loop up to and including the is_running check (runtime.py 150-155).
StartCheck(c) ==
    /\ pc[c] = "idle"
    /\ FreePids # {}
    /\ pc' = [pc EXCEPT ![c] =
                IF ~scriptPresent THEN "missing"
                ELSE CASE is_running = "True" -> "raised"
                       [] is_running = "False" -> "checked"
                       [] OTHER -> "error"]
    /\ UNCHANGED <<scriptPresent, pidFile, procs, ret, executed, safetyChecked, probe, routerVars, evoVars, loopVars,
                   auxVars>>

\* A mutant of the launch: the liveness check is repeated under a lock.
StartLaunchLocked(c, foreground) ==
    /\ pc[c] = "checked"
    /\ FreePids # {}
    /\ IF \E p \in Pids : procs[p].state = "alive"
       THEN /\ pc' = [pc EXCEPT ![c] = "raised"]
            /\ UNCHANGED <<procs, ret, executed>>
       ELSE /\ procs' = [procs EXCEPT ![NextPid] =
                            [state |-> "alive", owner |-> "self", fg |-> foreground,
                             env |-> build_env_from_config(configFile)]]
            /\ ret' = [ret EXCEPT ![c] = NextPid]
            /\ pc' = [pc EXCEPT ![c] = "returned"]
            /\ executed' = executed \cup {"auto-loop.sh"}
    /\ UNCHANGED <<scriptPresent, pidFile, safetyChecked, probe, routerVars, evoVars, loopVars,
                   auxVars>>

\* start_loop from the Popen to the return (runtime.py 157-184): both
\* branches create the child and return its pid at once; neither waits for
\* it, reads its pipes, or consults check_command_safety.
StartLaunch(c, foreground) ==
    /\ pc[c] = "checked"
    /\ FreePids # {}
    /\ procs' = [procs EXCEPT ![NextPid] =
                    [state |-> "alive", owner |-> "self", fg |-> foreground,
                             env |-> build_env_from_config(configFile)]]
    /\ ret' = [ret EXCEPT ![c] = NextPid]
    /\ pc' = [pc EXCEPT ![c] = "returned"]
    /\ executed' = executed \cup {"auto-loop.sh"}
    /\ UNCHANGED <<scriptPresent, pidFile, safetyChecked, probe, routerVars, evoVars, loopVars,
                   auxVars>>

\* The stop script (scripts/stop-loop.sh): exit status 0 after it signalled
\* the process the PID file names and removed the file, nonzero otherwise.
StopScript ==
    IF pidFile.kind # "int" THEN [rc |-> 1, kill |-> 0]
    ELSE IF Kill0(pidFile) = "PermissionError" THEN [rc |-> 1, kill |-> 0]
    ELSE [rc |-> 0, kill |-> pidFile.int]

\* stop_loop(output_dir, force) (runtime.py 197-206).
StopLoop(c) ==
    /\ pc[c] = "idle"
    /\ executed' = executed \cup {"stop-loop.sh"}
    /\ LET r == StopScript IN
       IF r.rc # 0
       THEN /\ pc' = [pc EXCEPT ![c] = "stopFailed"]
            /\ UNCHANGED <<pidFile, procs>>
       ELSE /\ pc' = [pc EXCEPT ![c] = "stopped"]
            /\ pidFile' = Absent
            /\ procs' = [p \in Pids |->
                            IF p = r.kill /\ procs[p].state = "alive"
                            THEN Gone
                            ELSE procs[p]]
    /\ UNCHANGED <<scriptPresent, ret, safetyChecked, probe, routerVars, evoVars, loopVars,
                   auxVars>>

\* The call is over; the caller may issue the next one.
Return(c) ==
    /\ pc[c] \in Terminal
    /\ pc' = [pc EXCEPT ![c] = "idle"]
    /\ ret' = [ret EXCEPT ![c] = 0]
    /\ UNCHANGED <<scriptPresent, pidFile, procs, executed, safetyChecked, probe, routerVars, evoVars, loopVars,
                   auxVars>>

\* The driver (scripts/auto-loop.sh) records its own pid in the PID file.
DriverWritePid(p) ==
    /\ procs[p].state = "alive"
    /\ pidFile # PidText(p)
    /\ pidFile' = PidText(p)
    /\ UNCHANGED <<scriptPresent, procs, pc, ret, executed, safetyChecked, probe, routerVars, evoVars, loopVars,
                   auxVars>>

\* The driver ends; a clean exit removes its PID file, a crash leaves it.
DriverExit(p, clean) ==
    /\ procs[p].state = "alive"
    /\ procs' = [procs EXCEPT ![p] = Gone]
    /\ pidFile' = IF clean /\ pidFile = PidText(p) THEN Absent ELSE pidFile
    /\ UNCHANGED <<scriptPresent, pc, ret, executed, safetyChecked, probe, routerVars, evoVars, loopVars,
                   auxVars>>

\* Another user of the machine starts a driver on the same output_dir.
ForeignLaunch ==
    /\ FreePids # {}
    /\ \A p \in Pids : procs[p].owner = "self"
    /\ procs' = [procs EXCEPT ![NextPid] =
                    [state |-> "alive", owner |-> "other", fg |-> FALSE,
                     env |-> build_env_from_config(configFile)]]
    /\ UNCHANGED <<scriptPresent, pidFile, pc, ret, executed, safetyChecked, probe, routerVars, evoVars, loopVars,
                   auxVars>>

InitLife ==
    /\ scriptPresent \in BOOLEAN
    /\ pidFile = Absent
    /\ procs = [p \in Pids |-> NoProc]
    /\ pc = [c \in Callers |-> "idle"]
    /\ ret = [c \in Callers |-> 0]
    /\ executed = {}
    /\ safetyChecked = {}

----------------------------------------------------------------------------
(* is_running as a function of what is on disk and in the process table *)

ProbeProcs ==
    {NoProc,
     [state |-> "alive", owner |-> "self", fg |-> FALSE, env |-> NoEnv],
     [state |-> "alive", owner |-> "other", fg |-> FALSE, env |-> NoEnv],
     Gone}

\* One call of is_running(output_dir).
ProbeCall ==
    /\ probe = "none"
    /\ probe' = is_running
    /\ UNCHANGED <<lifeVars, routerVars, evoVars, loopVars, auxVars>>

----------------------------------------------------------------------------
(* router.py: provider selection and failover *)

MaxProviders == 3   \* longest provider list

Engines == {"claude", "codex"}
Models == {"opus", "sonnet"}
Priorities == {0, 1}
Layers == {"strategy", "product", "engineering", "business", "intelligence",
           "support"}

\* The environment variable a provider of the engine names: the claude CLI
\* keeps its own login, codex providers name a key variable.
KeyEnvOf(engine) == IF engine = "codex" THEN "OPENAI_API_KEY" ELSE ""

\* Provider values the lists are drawn from.
ProviderSet ==
    {p \in [engine : Engines, model : Models,
            api_key_env : {"", "OPENAI_API_KEY"}, endpoint : {""},
            priority : Priorities] : p.api_key_env = KeyEnvOf(p.engine)}

\* A provider that occurs in no list: a "current" that was removed from the
\* configuration.
Retired ==
    [engine |-> "claude", model |-> "haiku", api_key_env |-> "",
     endpoint |-> "", priority |-> 0]

ProviderLists == UNION {[1..n -> ProviderSet] : n \in 0..MaxProviders}

Range(s) == {s[i] : i \in DOMAIN s}

ROLE_MODEL_MAP ==
    [strategy |-> "opus", product |-> "sonnet", engineering |-> "sonnet",
     business |-> "sonnet", intelligence |-> "opus"]

get_optimal_model(role_layer) ==
    IF role_layer \in DOMAIN ROLE_MODEL_MAP THEN ROLE_MODEL_MAP[role_layer]
    ELSE "sonnet"

\* max(providers, key=priority) scans left to right and replaces its
\* candidate only by a strictly greater key: the first maximum wins.
RECURSIVE MaxScan(_, _, _)
MaxScan(ps, i, best) ==
    IF i > Len(ps) THEN best
    ELSE MaxScan(ps, i + 1, IF ps[i].priority > best.priority THEN ps[i] ELSE best)

\* A scan that also replaces its candidate by an equal key: the last
\* maximum wins.
RECURSIVE MaxScanLast(_, _, _)
MaxScanLast(ps, i, best) ==
    IF i > Len(ps) THEN best
    ELSE MaxScanLast(ps, i + 1, IF ps[i].priority >= best.priority THEN ps[i] ELSE best)

\* A mutant of _highest_priority: among equal priorities the last is taken.
highest_priority_last(ps) == MaxScanLast(ps, 2, ps[1])

highest_priority(ps) == MaxScan(ps, 2, ps[1])

\* A mutant of select_provider: the tier filter is skipped.
select_provider_unfiltered(role_layer, ps) ==
    IF ps = <<>> THEN [error |-> "ValueError", provider |-> <<>>, fallback |-> FALSE]
    ELSE [error |-> "", provider |-> <<highest_priority(ps)>>, fallback |-> TRUE]

\* select_provider(role_layer, providers): the exception raised, or the
\* chosen provider and whether the reason records a fallback.
select_provider(role_layer, ps) ==
    IF ps = <<>> THEN [error |-> "ValueError", provider |-> <<>>, fallback |-> FALSE]
    ELSE
        LET optimal_model == get_optimal_model(role_layer)
            matching == SelectSeq(ps, LAMBDA p : p.model = optimal_model)
        IN  IF matching # <<>>
            THEN [error |-> "", provider |-> <<highest_priority(matching)>>,
                  fallback |-> FALSE]
            ELSE [error |-> "", provider |-> <<highest_priority(ps)>>,
                  fallback |-> TRUE]

check_provider_health(p) ==
    /\ p.engine \in installed                    \* shutil.which(cli_name)
    /\ p.api_key_env # "" => p.api_key_env \in envSet

\* sorted(candidates, key=priority, reverse=True): a stable sort, elements
\* of equal priority keep their input order.
RECURSIVE InsertDesc(_, _)
InsertDesc(s, x) ==
    IF s = <<>> THEN <<x>>
    ELSE IF Head(s).priority >= x.priority THEN <<Head(s)>> \o InsertDesc(Tail(s), x)
    ELSE <<x>> \o s

\* A mutant of the sort: ascending sort, then reversed, which turns the
\* order of equal priorities around.
RECURSIVE SortedDescReversed(_)
SortedDescReversed(s) ==
    IF s = <<>> THEN <<>>
    ELSE LET rest == SortedDescReversed(Tail(s))
             x == Head(s)
             before == SelectSeq(rest, LAMBDA y : y.priority >= x.priority)
             after == SelectSeq(rest, LAMBDA y : y.priority < x.priority)
         IN  before \o <<x>> \o after

RECURSIVE SortedDescFrom(_, _)
SortedDescFrom(s, acc) ==
    IF s = <<>> THEN acc ELSE SortedDescFrom(Tail(s), InsertDesc(acc, Head(s)))

SortedDesc(s) == SortedDescFrom(s, <<>>)

RECURSIVE FirstHealthy(_)
FirstHealthy(s) ==
    IF s = <<>> THEN <<>>
    ELSE IF check_provider_health(Head(s)) THEN <<Head(s)>>
    ELSE FirstHealthy(Tail(s))

\* A mutant of failover: the failed provider stays among the candidates.
failover_unfiltered(current, ps) == FirstHealthy(SortedDesc(ps))

\* failover(current, providers): <<>> for None, else <<the provider>>.
failover(current, ps) ==
    LET candidates == SelectSeq(ps, LAMBDA p : p # current)
        sorted_candidates == SortedDesc(candidates)
    IN  FirstHealthy(sorted_candidates)

NoRoute ==
    [op |-> "none", layer |-> "", current |-> <<>>, error |-> "",
     provider |-> <<>>, fallback |-> FALSE]

RouterParked ==
    /\ providers = <<>>
    /\ installed = {}
    /\ envSet = {}
    /\ route = NoRoute

InitRouter ==
    /\ providers \in ProviderLists
    /\ installed \in SUBSET Engines
    /\ envSet \in SUBSET {"OPENAI_API_KEY"}
    /\ route = NoRoute

\* One call select_provider(role_layer, providers).
SelectCall(role_layer) ==
    /\ route.op = "none"
    /\ LET d == select_provider(role_layer, providers) IN
       route' = [op |-> "select", layer |-> role_layer, current |-> <<>>,
                 error |-> d.error, provider |-> d.provider,
                 fallback |-> d.fallback]
    /\ UNCHANGED <<lifeVars, probe, providers, installed, envSet, evoVars, loopVars,
                   auxVars>>

\* One call failover(current, providers).
FailoverCall(current) ==
    /\ route.op = "none"
    /\ route' = [op |-> "failover", layer |-> "", current |-> <<current>>,
                 error |-> "", provider |-> failover(current, providers),
                 fallback |-> FALSE]
    /\ UNCHANGED <<lifeVars, probe, providers, installed, envSet, evoVars, loopVars,
                   auxVars>>

\* The provider failover returned fails in turn: the caller calls
\* failover(previous result, providers) on the same list.
FailoverAgain ==
    /\ route.op \in {"failover", "failover_again"}
    /\ route.provider # <<>>
    /\ route' = [op |-> "failover_again", layer |-> "", current |-> route.provider,
                 error |-> "", provider |-> failover(route.provider[1], providers),
                 fallback |-> FALSE]
    /\ UNCHANGED <<lifeVars, probe, providers, installed, envSet, evoVars, loopVars,
                   auxVars>>

NextRouter ==
    \/ \E role_layer \in Layers : SelectCall(role_layer)
    \/ \E current \in Range(providers) \cup {Retired} : FailoverCall(current)
    \/ FailoverAgain

----------------------------------------------------------------------------
(* evolution.py: evaluation of one cycle *)

\* Amounts are integers: cost_usd in tenths of a dollar, progress_score in
\* tenths.  Costs are drawn from multiples of half a dollar, whose float
\* sums and means are exact.

\* Texts are strings; Len, SubSeq and \o act on their characters.

Whitespace == {" ", "\t", "\n", "\r"}

UpperCase == "ABCDEFGHIJKLMNOPQRSTUVWXYZ"
LowerCase == "abcdefghijklmnopqrstuvwxyz"

\* str.lower() on one character.
LowerOf ==
    [c \in {SubSeq(UpperCase, i, i) : i \in 1..Len(UpperCase)} |->
        LET i == CHOOSE i \in 1..Len(UpperCase) : SubSeq(UpperCase, i, i) = c
        IN  SubSeq(LowerCase, i, i)]

LowerChar(c) == IF c \in DOMAIN LowerOf THEN LowerOf[c] ELSE c

\* str.lower()
RECURSIVE lower(_)
lower(s) ==
    IF s = "" THEN "" ELSE LowerChar(SubSeq(s, 1, 1)) \o lower(SubSeq(s, 2, Len(s)))

\* str.strip()
RECURSIVE lstrip(_)
lstrip(s) ==
    IF s # "" /\ SubSeq(s, 1, 1) \in Whitespace THEN lstrip(SubSeq(s, 2, Len(s)))
    ELSE s

RECURSIVE rstrip(_)
rstrip(s) ==
    IF s # "" /\ SubSeq(s, Len(s), Len(s)) \in Whitespace
    THEN rstrip(SubSeq(s, 1, Len(s) - 1))
    ELSE s

strip(s) == rstrip(lstrip(s))

LongSummary == "Refactored the billing module and added regression tests."

\* sub in s
Contains(s, sub) ==
    \E i \in 1..(Len(s) - Len(sub) + 1) : SubSeq(s, i, i + Len(sub) - 1) = sub

\* A mutant of the score: the summary is measured untrimmed.
compute_progress_score_untrimmed(success, consensus_changed, summary) ==
    LET score == (IF success THEN 5 ELSE 0)
                 + (IF consensus_changed THEN 3 ELSE 0)
                 + (IF summary # "" /\ Len(summary) > 50 THEN 2 ELSE 0)
    IN  IF score < 10 THEN score ELSE 10

compute_progress_score(success, consensus_changed, summary) ==
    LET score == (IF success THEN 5 ELSE 0)
                 + (IF consensus_changed THEN 3 ELSE 0)
                 + (IF summary # "" /\ Len(strip(summary)) > 50 THEN 2 ELSE 0)
    IN  IF score < 10 THEN score ELSE 10

\* A mutant of the issue extraction: the summary is searched as written.
extract_issues_cased(status, summary) ==
    IF status = "timeout" THEN <<"timeout">>
    ELSE IF status = "fail" THEN
        IF Contains(summary, "rate limit") \/ Contains(summary, "429")
        THEN <<"rate_limit">>
        ELSE IF Contains(summary, "auth") \/ Contains(summary, "permission")
             THEN <<"auth_error">>
        ELSE IF Contains(summary, "timeout") THEN <<"timeout">>
        ELSE <<"general_failure">>
    ELSE <<>>

extract_issues(status, summary) ==
    IF status = "timeout" THEN <<"timeout">>
    ELSE IF status = "fail" THEN
        LET lower_summary == lower(summary) IN
        IF Contains(lower_summary, "rate limit") \/ Contains(lower_summary, "429")
        THEN <<"rate_limit">>
        ELSE IF Contains(lower_summary, "auth") \/ Contains(lower_summary, "permission")
             THEN <<"auth_error">>
        ELSE IF Contains(lower_summary, "timeout") THEN <<"timeout">>
        ELSE <<"general_failure">>
    ELSE <<>>

\* evaluate_cycle on a log that exists; log holds the parsed fields (status
\* "unknown" when missing, cost 0 when missing or unparsable) and the
\* summary.  consensus_file is <<>> when consensus_path is no file and
\* <<content>> otherwise; previous_consensus is <<>> for None.
evaluate_cycle(log, consensus_file, previous_consensus) ==
    LET success == log.status = "ok"
        current_consensus == IF consensus_file # <<>> THEN consensus_file[1] ELSE ""
        consensus_changed ==
            IF previous_consensus # <<>>
            THEN current_consensus # previous_consensus[1]
            ELSE FALSE
    IN  [cycle_number |-> log.cycle,
         success |-> success,
         cost_usd |-> log.cost,
         consensus_changed |-> consensus_changed,
         progress_score |->
             compute_progress_score(success, consensus_changed, log.summary),
         issues |-> extract_issues(log.status, log.summary)]

----------------------------------------------------------------------------
(* evolution.py: suggest_adjustments *)

Adjustment(type, target, old_value, new_value) ==
    [type |-> type, target |-> target, old_value |-> old_value,
     new_value |-> new_value]

\* The loop of _count_trailing_failures over reversed(evaluations).
RECURSIVE TrailingFailuresFrom(_, _)
TrailingFailuresFrom(evs, i) ==
    IF i = 0 THEN 0
    ELSE IF ~evs[i].success THEN 1 + TrailingFailuresFrom(evs, i - 1)
    ELSE 0

RECURSIVE FailuresFrom(_, _)
FailuresFrom(evs, i) ==
    IF i = 0 THEN 0
    ELSE (IF ~evs[i].success THEN 1 ELSE 0) + FailuresFrom(evs, i - 1)

\* A mutant of the failure count: every failure counts, the loop does not
\* stop at the first success.
count_failures_nobreak(evs) == FailuresFrom(evs, Len(evs))

count_trailing_failures(evs) == TrailingFailuresFrom(evs, Len(evs))

RECURSIVE TrailingNoChangeFrom(_, _)
TrailingNoChangeFrom(evs, i) ==
    IF i = 0 THEN 0
    ELSE IF ~evs[i].consensus_changed THEN 1 + TrailingNoChangeFrom(evs, i - 1)
    ELSE 0

RECURSIVE NoChangeFrom(_, _)
NoChangeFrom(evs, i) ==
    IF i = 0 THEN 0
    ELSE (IF ~evs[i].consensus_changed THEN 1 ELSE 0) + NoChangeFrom(evs, i - 1)

\* A mutant of the streak: every unchanged cycle counts, the loop does not
\* stop at the first change.
count_no_change_nobreak(evs) == NoChangeFrom(evs, Len(evs))

count_trailing_no_consensus_change(evs) == TrailingNoChangeFrom(evs, Len(evs))

\* evaluations[-n:]
LastN(s, n) == IF Len(s) <= n THEN s ELSE SubSeq(s, Len(s) - n + 1, Len(s))

RECURSIVE SumSeq(_)
SumSeq(s) == IF s = <<>> THEN 0 ELSE Head(s) + SumSeq(Tail(s))

Costs(evs) == [i \in DOMAIN evs |-> evs[i].cost_usd]
Progress(evs) == [i \in DOMAIN evs |-> evs[i].progress_score]

\* How the interpreter's sum() adds floats: one rounding per addition
\* (CPython up to 3.11) or compensated (CPython 3.12 and later).
FloatSums == {"naive", "compensated"}

\* The progress sequences whose exact mean is 0.3 and whose float mean
\* under naive summation (left-to-right sum, then one division) is
\* 0.29999999999999993.  Under compensated summation the float mean of
\* every sequence of up to five scores compares with 0.3 as the exact one.
FloatMeanRoundsBelow03 ==
    {<<0, 3, 3, 7, 2>>, <<2, 7, 2, 2, 2>>, <<3, 0, 3, 7, 2>>, <<3, 3, 0, 7, 2>>,
     <<3, 3, 7, 0, 2>>, <<3, 3, 7, 2, 0>>, <<7, 2, 2, 2, 2>>}

\* avg_cost > 0.5
AvgCostHigh(recent) == SumSeq(Costs(recent)) > 5 * Len(recent)

\* avg_progress < 0.3, as the float computation decides it
AvgProgressLow(recent, float_sum) ==
    \/ SumSeq(Progress(recent)) < 3 * Len(recent)
    \/ float_sum = "naive" /\ Progress(recent) \in FloatMeanRoundsBelow03

\* The issue tags of the evaluations, in the order the Counter sees them.
RECURSIVE IssueStream(_)
IssueStream(evs) ==
    IF evs = <<>> THEN <<>> ELSE Head(evs).issues \o IssueStream(Tail(evs))

\* The keys of the Counter, in insertion order.
RECURSIVE FirstSeen(_, _)
FirstSeen(stream, seen) ==
    IF stream = <<>> THEN seen
    ELSE FirstSeen(Tail(stream),
                   IF \E i \in DOMAIN seen : seen[i] = Head(stream)
                   THEN seen ELSE Append(seen, Head(stream)))

CountOf(stream, tag) == Cardinality({i \in DOMAIN stream : stream[i] = tag})

\* A mutant of the sort: an item goes before the items of equal count.
RECURSIVE InsertByCountUnstable(_, _)
InsertByCountUnstable(s, x) ==
    IF s = <<>> THEN <<x>>
    ELSE IF Head(s).count > x.count
         THEN <<Head(s)>> \o InsertByCountUnstable(Tail(s), x)
    ELSE <<x>> \o s

\* Counter.most_common(): a stable sort of the items by descending count.
RECURSIVE InsertByCount(_, _)
InsertByCount(s, x) ==
    IF s = <<>> THEN <<x>>
    ELSE IF Head(s).count >= x.count THEN <<Head(s)>> \o InsertByCount(Tail(s), x)
    ELSE <<x>> \o s

RECURSIVE MostCommonFrom(_, _)
MostCommonFrom(items, acc) ==
    IF items = <<>> THEN acc
    ELSE MostCommonFrom(Tail(items), InsertByCount(acc, Head(items)))

most_common(stream) ==
    LET keys == FirstSeen(stream, <<>>)
        items == [i \in DOMAIN keys |->
                     [issue |-> keys[i], count |-> CountOf(stream, keys[i])]]
    IN  MostCommonFrom(items, <<>>)

\* A mutant of the skill proposal: the skill is proposed for every agent.
skill_adjustment_primary(issue) ==
    Adjustment("add_skill", "primary", "none", "skill-for-" \o issue)

\* The add_skill adjustment of rule 4 for an issue tag.
skill_adjustment(issue) ==
    Adjustment("add_skill", issue, "none", "skill-for-" \o issue)

\* The loop of rule 4: the first item with count >= 3 is proposed, then break.
RECURSIVE FirstRepeated(_)
FirstRepeated(items) ==
    IF items = <<>> THEN <<>>
    ELSE IF Head(items).count >= 3
         THEN <<skill_adjustment(Head(items).issue)>>
    ELSE FirstRepeated(Tail(items))

\* suggest_adjustments(evaluations) on an interpreter whose sum() is
\* float_sum; the reason texts are left out.
suggest_adjustments(evs, float_sum) ==
    IF evs = <<>> THEN <<>>
    ELSE
        LET consecutive_failures == count_trailing_failures(evs)
            rule1 == IF consecutive_failures >= 3
                     THEN <<Adjustment("upgrade_model", "primary", "sonnet", "opus")>>
                     ELSE <<>>
            recent == LastN(evs, 5)
            rule2 == IF AvgCostHigh(recent) /\ AvgProgressLow(recent, float_sum)
                     THEN <<Adjustment("downgrade_model", "business", "opus", "sonnet")>>
                     ELSE <<>>
            no_change_streak == count_trailing_no_consensus_change(evs)
            rule3 == IF no_change_streak >= 5
                     THEN <<Adjustment("change_workflow", "consensus", "current",
                                       "restructured")>>
                     ELSE <<>>
            rule4 == FirstRepeated(most_common(IssueStream(recent)))
        IN  rule1 \o rule2 \o rule3 \o rule4

----------------------------------------------------------------------------
(* evolution.py: apply_adjustments *)

\* _resolve_model_tier: <<>> for None.
resolve_model_tier(value) ==
    LET name == lower(value)
    IN  IF name \in {"opus", "sonnet", "haiku"} THEN <<name>> ELSE <<>>

\* A mutant of the target match: the layer is not looked at.
agent_matches_role(agent, target) ==
    IF target = "primary" THEN TRUE ELSE agent.role = target

agent_matches_target(agent, target) ==
    IF target = "primary" THEN TRUE
    ELSE agent.role = target \/ agent.layer = target

\* A mutant of the model change: the copy starts from a fresh agent of the
\* same role, so its skills are lost.
with_model_fresh(agent, new_tier) == [agent EXCEPT !.model = new_tier, !.skills = <<>>]

with_model(agent, new_tier) == [agent EXCEPT !.model = new_tier]

\* A mutant of the skill addition: the skill is appended unconditionally.
with_added_skill_always(agent, skill_id) ==
    [agent EXCEPT !.skills = Append(agent.skills, skill_id)]

with_added_skill(agent, skill_id) ==
    IF \A i \in DOMAIN agent.skills : agent.skills[i] # skill_id
    THEN [agent EXCEPT !.skills = Append(agent.skills, skill_id)]
    ELSE agent

\* A mutant of the workflow change: the count is incremented without floor.
next_convergence_unfloored(cycles) == cycles + 1

\* max(1, wf.convergence_cycles + 1)
next_convergence(cycles) == IF cycles + 1 > 1 THEN cycles + 1 ELSE 1

\* One round of the loop over the adjustments; st holds current_agents and
\* current_workflows.
ApplyOne(st, adj) ==
    IF adj.type \in {"upgrade_model", "downgrade_model"} THEN
        LET new_tier == resolve_model_tier(adj.new_value) IN
        IF new_tier = <<>> THEN st
        ELSE [st EXCEPT !.agents =
                 [i \in DOMAIN st.agents |->
                     IF agent_matches_target(st.agents[i], adj.target)
                     THEN with_model(st.agents[i], new_tier[1])
                     ELSE st.agents[i]]]
    ELSE IF adj.type = "add_skill" THEN
        [st EXCEPT !.agents =
            [i \in DOMAIN st.agents |->
                IF agent_matches_target(st.agents[i], adj.target)
                THEN with_added_skill(st.agents[i], adj.new_value)
                ELSE st.agents[i]]]
    ELSE IF adj.type = "remove_agent" THEN
        [st EXCEPT !.agents = SelectSeq(st.agents, LAMBDA a : a.role # adj.target)]
    ELSE IF adj.type = "change_workflow" THEN
        [st EXCEPT !.workflows =
            [i \in DOMAIN st.workflows |->
                [st.workflows[i] EXCEPT !.convergence_cycles = next_convergence(@)]]]
    ELSE st

RECURSIVE ApplyAll(_, _)
ApplyAll(st, adjs) ==
    IF adjs = <<>> THEN st ELSE ApplyAll(ApplyOne(st, Head(adjs)), Tail(adjs))

\* apply_adjustments(config, adjustments): a new configuration; config.org
\* is flattened to the field agents.
apply_adjustments(config, adjustments) ==
    LET r == ApplyAll([agents |-> config.agents, workflows |-> config.workflows],
                      adjustments)
    IN  [config EXCEPT !.agents = r.agents, !.workflows = r.workflows]

----------------------------------------------------------------------------
(* The evaluation and adjustment passes as steps *)

MaxEvals == 6       \* evaluations accumulated in a run

Stale == [fresh |-> FALSE, adjustments |-> <<>>]

\* The cycle logs the evaluations are drawn from.
EvoLogs ==
    {[status |-> "ok", cost |-> 0, summary |-> "done"],
     [status |-> "fail", cost |-> 10, summary |-> "Hit 429 rate limit"],
     [status |-> "timeout", cost |-> 10, summary |-> ""]}

\* One more cycle has been evaluated and its record appended.
EvaluateCycle(log, previous_consensus) ==
    /\ Len(evaluations) < MaxEvals
    /\ evaluations' =
          Append(evaluations,
                 evaluate_cycle([status |-> log.status, cost |-> log.cost,
                                 summary |-> log.summary,
                                 cycle |-> Len(evaluations) + 1],
                                <<"v2">>, previous_consensus))
    /\ suggested' = Stale
    /\ UNCHANGED <<lifeVars, probe, routerVars, loopVars, auxVars>>

\* One pass of suggest_adjustments over the accumulated evaluations.
SuggestPass ==
    /\ ~suggested.fresh
    /\ \E float_sum \in FloatSums :
          suggested' = [fresh |-> TRUE,
                        adjustments |-> suggest_adjustments(evaluations, float_sum)]
    /\ UNCHANGED <<lifeVars, probe, routerVars, evaluations, loopVars, auxVars>>

NextEvolve ==
    \/ \E log \in EvoLogs, prev \in {<<"v1">>, <<"v2">>} : EvaluateCycle(log, prev)
    \/ SuggestPass

----------------------------------------------------------------------------
(* suggest_adjustments on evaluation lists handed in by a caller *)

MaxSuggestLen == 5   \* length of the evaluation lists handed in

\* Evaluations evaluate_cycle produces, with every progress score but 1.0.
SuggestLogs ==
    {[status |-> "ok", cost |-> 0, cycle |-> 0, summary |-> "done"],
     [status |-> "ok", cost |-> 10, cycle |-> 0, summary |-> LongSummary],
     [status |-> "fail", cost |-> 10, cycle |-> 0,
      summary |-> "Hit 429 rate limit\n" \o LongSummary],
     [status |-> "timeout", cost |-> 0, cycle |-> 0, summary |-> ""]}

\* Evaluations a caller builds itself, with more than one issue tag each.
TaggedEvals ==
    {[cycle_number |-> 0, success |-> FALSE, cost_usd |-> 10,
      consensus_changed |-> TRUE, progress_score |-> 3, issues |-> tags] :
        tags \in {<<"timeout", "rate_limit">>, <<"rate_limit", "timeout">>}}

SuggestEvals ==
    {evaluate_cycle(log, <<"v2">>, <<"v2">>) : log \in SuggestLogs}
    \cup {evaluate_cycle([status |-> "fail", cost |-> 0, cycle |-> 0,
                          summary |-> "request timeout"], <<"v2">>, <<"v1">>)}
    \cup TaggedEvals

SuggestInputs == UNION {[1..n -> SuggestEvals] : n \in 0..MaxSuggestLen}

----------------------------------------------------------------------------
(* The commands and the driver around the evaluation passes *)

MaxCycles == 4       \* cycles the driver runs
MaxEvolveRuns == 1   \* runs of the evolve command

LoopLogs == {l \in EvoLogs : l.status \in {"ok", "fail"}}

\* cli.up: load the configuration file, generate the files from it, then
\* start_loop(output, foreground, config) as a whole.  The loop is started
\* as a daemon below.
UpCmd(foreground) ==
    /\ FreePids # {}
    /\ generatedFrom' = <<configFile>>
    /\ IF scriptPresent /\ is_running = "False"
       THEN /\ procs' = [procs EXCEPT ![NextPid] =
                            [state |-> "alive", owner |-> "self", fg |-> foreground,
                             env |-> build_env_from_config(configFile)]]
            /\ executed' = executed \cup {"auto-loop.sh"}
       ELSE UNCHANGED <<procs, executed>>
    /\ UNCHANGED <<scriptPresent, pidFile, pc, ret, safetyChecked, probe, routerVars,
                   evoVars, configFile, applied, logs, lastCycle, evolveRuns,
                   auxVars>>

\* The driver (scripts/auto-loop.sh) runs one cycle: it works from the
\* generated files with the environment it was started with, and leaves a
\* cycle log.
DriverCycle(p, log) ==
    /\ procs[p].state = "alive"
    /\ procs[p].owner = "self"
    /\ generatedFrom # <<>>
    /\ Len(logs) < MaxCycles
    /\ logs' = Append(logs, [status |-> log.status, cost |-> log.cost,
                             summary |-> log.summary, cycle |-> Len(logs) + 1])
    /\ lastCycle' = [ran |-> TRUE, env |-> procs[p].env, files |-> generatedFrom,
                     sawApplied |-> applied]
    /\ UNCHANGED <<lifeVars, probe, routerVars, evoVars, configFile, generatedFrom,
                   applied, evolveRuns, auxVars>>

\* evaluate_cycle on the next cycle log not yet evaluated; the consensus
\* file is the one of the previous evaluation.
EvaluateLatest ==
    /\ Len(evaluations) < Len(logs)
    /\ evaluations' = Append(evaluations,
                             evaluate_cycle(logs[Len(evaluations) + 1], <<"v2">>, <<"v2">>))
    /\ suggested' = Stale
    /\ UNCHANGED <<lifeVars, probe, routerVars, loopVars, auxVars>>

\* apply_adjustments on the loaded configuration and the proposals of the
\* last pass: the result is a new object held by the caller; nothing writes
\* it to the configuration file, the generated files or a running driver.
ApplyCall ==
    /\ suggested.fresh
    /\ applied # <<apply_adjustments(configFile, suggested.adjustments)>>
    /\ applied' = <<apply_adjustments(configFile, suggested.adjustments)>>
    /\ lastApply' = [base |-> <<configFile>>, adjustments |-> suggested.adjustments,
                     result |-> applied']
    /\ UNCHANGED <<lifeVars, probe, routerVars, evoVars, configFile, generatedFrom,
                   logs, lastCycle, evolveRuns, evalCall, safetyCall,
                   memVars, readVars>>

\* cli.evolve: prints its four lines; it reads and writes nothing else.
EvolveCmd ==
    /\ evolveRuns < MaxEvolveRuns
    /\ evolveRuns' = evolveRuns + 1
    /\ UNCHANGED <<lifeVars, probe, routerVars, evoVars, configFile, generatedFrom,
                   applied, logs, lastCycle, auxVars>>

NextLoop ==
    \/ \E foreground \in {FALSE} : UpCmd(foreground)
    \/ \E p \in Pids : DriverWritePid(p)
    \/ \E p \in Pids, clean \in BOOLEAN : DriverExit(p, clean)
    \/ \E p \in Pids, log \in LoopLogs : DriverCycle(p, log)
    \/ EvaluateLatest
    \/ SuggestPass
    \/ ApplyCall
    \/ EvolveCmd

----------------------------------------------------------------------------
(* evaluate_cycle called on one cycle log *)

NoEval == [log |-> <<>>, consensus_file |-> <<>>, previous_consensus |-> <<>>,
           result |-> "none"]

FiftyChars == "Reviewed open pull requests and merged two of them"

\* Summaries of cycle logs: around the 50-character mark, with and without
\* surrounding whitespace, and with the failure keywords in several cases.
EvalSummaries ==
    {"", "   ", "Hit 429 rate limit", "RATE LIMIT exceeded",
     "Unauthorized: permission denied after timeout", "request Timeout",
     "build broke", LongSummary, FiftyChars, FiftyChars \o "!",
     "\n\n  " \o FiftyChars \o " \n"}

EvalStatuses == {"ok", "fail", "timeout", "unknown"}

\* The cycle log file: <<>> when it does not exist.
EvalLogFiles ==
    {<<>>} \cup {<<[status |-> st, cost |-> 5, cycle |-> 1, summary |-> su]>> :
                    st \in EvalStatuses, su \in EvalSummaries}

\* evaluate_cycle(cycle_log_path, consensus_path, previous_consensus)
EvaluateOnce(log_file, consensus_file, previous_consensus) ==
    /\ evalCall' = [log |-> log_file, consensus_file |-> consensus_file,
                    previous_consensus |-> previous_consensus,
                    result |-> IF log_file = <<>> THEN "FileNotFoundError"
                               ELSE evaluate_cycle(log_file[1], consensus_file,
                                                   previous_consensus)]
    /\ UNCHANGED <<lifeVars, probe, routerVars, evoVars, loopVars, lastApply, safetyCall,
                   memVars, readVars>>

NextEvaluate ==
    \E log_file \in EvalLogFiles, consensus_file \in {<<>>, <<"v2">>},
       previous_consensus \in {<<>>, <<"">>, <<"v1">>, <<"v2">>} :
           EvaluateOnce(log_file, consensus_file, previous_consensus)

----------------------------------------------------------------------------
(* guardrails.py: check_command_safety *)

Quotes == {"'", "\""}

\* The elements the dangerous patterns are made of.
Lit(s) == [kind |-> "lit", alts |-> {s}]             \* the characters of s
Alt(alts) == [kind |-> "lit", alts |-> alts]         \* (a|b|...)
Spaces1 == [kind |-> "spaces+", alts |-> {}]         \* \s+
Spaces0 == [kind |-> "spaces*", alts |-> {}]         \* \s*
Quote == [kind |-> "quote", alts |-> {}]             \* ['"]
Unquoted1 == [kind |-> "unquoted+", alts |-> {}]     \* [^'"]+

CharAt(text, i) == SubSeq(text, i, i)

\* The positions a match of element e can end before, when it starts at one
\* of the positions in starts.
MatchElement(text, starts, e) ==
    CASE e.kind = "lit" ->
            {i + Len(a) : <<i, a>> \in
                {p \in starts \X e.alts :
                    /\ p[1] + Len(p[2]) - 1 <= Len(text)
                    /\ SubSeq(text, p[1], p[1] + Len(p[2]) - 1) = p[2]}}
      [] e.kind = "spaces+" ->
            {j \in 2..(Len(text) + 1) :
                \E i \in starts : i < j /\ \A k \in i..(j - 1) : CharAt(text, k) \in Whitespace}
      [] e.kind = "spaces*" ->
            {j \in 1..(Len(text) + 1) :
                \E i \in starts : i <= j /\ \A k \in i..(j - 1) : CharAt(text, k) \in Whitespace}
      [] e.kind = "quote" ->
            {i + 1 : i \in {j \in starts : j <= Len(text) /\ CharAt(text, j) \in Quotes}}
      [] e.kind = "unquoted+" ->
            {j \in 2..(Len(text) + 1) :
                \E i \in starts : i < j /\ \A k \in i..(j - 1) : CharAt(text, k) \notin Quotes}

RECURSIVE MatchElements(_, _, _)
MatchElements(text, starts, elements) ==
    IF elements = <<>> THEN starts
    ELSE MatchElements(text, MatchElement(text, starts, Head(elements)), Tail(elements))

\* pattern.search(text): a match starting anywhere; under re.IGNORECASE the
\* letters of text are compared in lower case.
search(pattern, text) ==
    LET subject == IF pattern.ignorecase THEN lower(text) ELSE text
    IN  MatchElements(subject, 1..(Len(text) + 1), pattern.elements) # {}

DANGEROUS_PATTERNS ==
    <<[source |-> "rm\\s+-rf\\s+/", ignorecase |-> FALSE,
       elements |-> <<Lit("rm"), Spaces1, Lit("-rf"), Spaces1, Lit("/")>>],
      [source |-> "rm\\s+-rf\\s+~", ignorecase |-> FALSE,
       elements |-> <<Lit("rm"), Spaces1, Lit("-rf"), Spaces1, Lit("~")>>],
      [source |-> "gh\\s+repo\\s+delete", ignorecase |-> FALSE,
       elements |-> <<Lit("gh"), Spaces1, Lit("repo"), Spaces1, Lit("delete")>>],
      [source |-> "wrangler\\s+delete", ignorecase |-> FALSE,
       elements |-> <<Lit("wrangler"), Spaces1, Lit("delete")>>],
      [source |-> "git\\s+push\\s+--force\\s+(main|master)", ignorecase |-> FALSE,
       elements |-> <<Lit("git"), Spaces1, Lit("push"), Spaces1, Lit("--force"),
                      Spaces1, Alt({"main", "master"})>>],
      [source |-> "(api[_-]?key|secret|token|password)\\s*=\\s*['\"][^'\"]+['\"]",
       ignorecase |-> TRUE,
       elements |-> <<Alt({"apikey", "api_key", "api-key", "secret", "token",
                           "password"}),
                      Spaces0, Lit("="), Spaces0, Quote, Unquoted1, Quote>>]>>

\* The first of the positions at which a loop over a sequence returns, 0
\* when it runs to the end.
FirstHit(hits) ==
    IF hits = {} THEN 0 ELSE CHOOSE i \in hits : \A j \in hits : i <= j

\* check_command_safety(command, guardrails): (safe, reason)
check_command_safety(command, guardrails) ==
    LET pattern == FirstHit({i \in DOMAIN DANGEROUS_PATTERNS :
                                search(DANGEROUS_PATTERNS[i], command)})
        forbidden == FirstHit({i \in DOMAIN guardrails.forbidden :
                                  Contains(lower(command),
                                           lower(guardrails.forbidden[i]))})
    IN  IF pattern # 0
        THEN [safe |-> FALSE,
              reason |-> "Command matches dangerous pattern: "
                             \o DANGEROUS_PATTERNS[pattern].source]
        ELSE IF forbidden # 0
        THEN [safe |-> FALSE,
              reason |-> "Command contains forbidden action: "
                             \o guardrails.forbidden[forbidden]]
        ELSE [safe |-> TRUE, reason |-> ""]

NoSafety == [called |-> FALSE, command |-> "", forbidden |-> <<>>,
             result |-> [safe |-> FALSE, reason |-> ""]]

\* The default of GuardrailConfig.forbidden.
DefaultForbidden ==
    <<"gh repo delete", "wrangler delete", "rm -rf /", "git push --force main",
      "git push --force master", "git reset --hard (on main/master)">>

ForbiddenLists ==
    {<<>>, DefaultForbidden, <<"DROP TABLE">>, <<"sudo", "rm -r">>,
     <<"git push", "Deploy">>}

Commands ==
    {"rm -rf /tmp/x", "rm -rf /", "rm  -rf\t/", "rm -r /tmp/x", "RM -RF /",
     "rm -rf ~", "rm -rf ./build", "ls -la", "gh repo delete acme/site",
     "GH REPO DELETE acme/site", "gh repo view", "wrangler delete",
     "wrangler  deploy", "git push --force main", "git push --force feature",
     "git push origin main", "export API_KEY='abc'", "token = \"\"",
     "echo password=hunter2", "psql -c 'drop table users'", "sudo reboot"}

SafetyCheck(command, forbidden) ==
    /\ safetyCall' = [called |-> TRUE, command |-> command, forbidden |-> forbidden,
                      result |-> check_command_safety(command,
                                                      [forbidden |-> forbidden])]
    /\ UNCHANGED <<lifeVars, probe, routerVars, evoVars, loopVars, lastApply, evalCall,
                   memVars, readVars>>

NextSafety ==
    \E command \in Commands, forbidden \in ForbiddenLists : SafetyCheck(command, forbidden)

----------------------------------------------------------------------------
(* memory.py: backup_consensus and restore_consensus *)

MaxTicks == 3         \* ticks of the wall clock in a run
TicksPerSecond == 2   \* ticks within one second

Contents == {"A", "B", "C"}

\* datetime.now().strftime("%Y%m%d-%H%M%S"): the time to the second.
timestamp(now) == now \div TicksPerSecond

Stamps == {timestamp(now) : now \in 0..(MaxTicks + 1)}

NoMem == [op |-> "none", stamp |-> 0, error |-> "", before |-> Absent,
          backupsBefore |-> <<>>]

\* The consensus file is rewritten as a whole (by a cycle of the driver).
WriteConsensus(content) ==
    /\ consensus # [kind |-> "text", text |-> content]
    /\ consensus' = [kind |-> "text", text |-> content]
    /\ memCall' = NoMem
    /\ UNCHANGED <<lifeVars, probe, routerVars, evoVars, loopVars, lastApply, evalCall,
                   safetyCall, clock, backups, tickets, readVars>>

\* Time passes.
Tick ==
    /\ clock < MaxTicks
    /\ clock' = clock + 1
    /\ memCall' = NoMem
    /\ UNCHANGED <<lifeVars, probe, routerVars, evoVars, loopVars, lastApply, evalCall,
                   safetyCall, consensus, backups, tickets, readVars>>

\* backup_consensus(path): the copy goes to path.with_suffix("." + timestamp
\* + ".bak"), replacing a file of that name.
BackupConsensus ==
    /\ IF consensus = Absent
       THEN /\ memCall' = [NoMem EXCEPT !.op = "backup", !.error = "FileNotFoundError"]
            /\ UNCHANGED <<backups, tickets>>
       ELSE /\ backups' = [backups EXCEPT ![timestamp(clock)] = consensus]
            /\ tickets' = tickets \cup {[stamp |-> timestamp(clock), content |-> consensus]}
            /\ memCall' = [op |-> "backup", stamp |-> timestamp(clock), error |-> "",
                           before |-> consensus, backupsBefore |-> backups]
    /\ UNCHANGED <<lifeVars, probe, routerVars, evoVars, loopVars, lastApply, evalCall,
                   safetyCall, clock, consensus, readVars>>

\* restore_consensus(path, backup_path) with the backup path of a timestamp.
RestoreConsensus(stamp) ==
    /\ IF backups[stamp] = Absent
       THEN /\ memCall' = [NoMem EXCEPT !.op = "restore", !.stamp = stamp,
                                        !.error = "FileNotFoundError"]
            /\ UNCHANGED consensus
       ELSE /\ consensus' = backups[stamp]
            /\ memCall' = [op |-> "restore", stamp |-> stamp, error |-> "",
                           before |-> consensus, backupsBefore |-> backups]
    /\ UNCHANGED <<lifeVars, probe, routerVars, evoVars, loopVars, lastApply, evalCall,
                   safetyCall, clock, backups, tickets, readVars>>

NextMemory ==
    \/ \E content \in Contents : WriteConsensus(content)
    \/ Tick
    \/ BackupConsensus
    \/ \E stamp \in Stamps : RestoreConsensus(stamp)

----------------------------------------------------------------------------
(* apply_adjustments called again and again on its own result *)

NoApply == [base |-> <<>>, adjustments |-> <<>>, result |-> <<>>]

MaxAdjustments == 2   \* adjustments handed to one apply_adjustments call
MaxConvergence == 5   \* convergence_cycles up to which calls are followed

\* A configuration with three agents and two workflows, one of them with
\* a count below 1 (validate_config warns about it, load_config accepts it).
ApplyConfig ==
    [BaseConfig EXCEPT
        !.agents = Append(@, [role |-> "dev", layer |-> "engineering",
                              model |-> "haiku", skills |-> <<>>]),
        !.workflows = Append(@, [id |-> "plan", convergence_cycles |-> -1])]

\* The adjustments handed in: the ones suggest_adjustments proposes and
\* others a caller can build.
ApplyAdjustments ==
    {Adjustment("upgrade_model", "primary", "sonnet", "opus"),
     Adjustment("downgrade_model", "business", "opus", "Sonnet"),
     Adjustment("upgrade_model", "ceo", "sonnet", "gpt-5"),
     Adjustment("add_skill", "primary", "none", "skill-for-timeout"),
     Adjustment("add_skill", "business", "none", "budgeting"),
     Adjustment("add_skill", "dev", "none", "testing"),
     Adjustment("remove_agent", "cfo", "cfo", "none"),
     Adjustment("remove_agent", "business", "cfo", "none"),
     Adjustment("remove_agent", "primary", "all", "none"),
     Adjustment("change_workflow", "consensus", "current", "restructured"),
     Adjustment("change_workflow", "plan", "3", "9"),
     Adjustment("rename_agent", "ceo", "ceo", "chief")}

AdjustmentLists == UNION {[1..n -> ApplyAdjustments] : n \in 0..MaxAdjustments}

\* apply_adjustments(config, adjustments) where config is the result of the
\* previous call, or the loaded configuration at the first call.
ApplyAgain(adjustments) ==
    LET base == IF applied = <<>> THEN configFile ELSE applied[1]
        result == apply_adjustments(base, adjustments)
    IN  /\ lastApply = NoApply
        /\ \A i \in DOMAIN result.workflows :
              result.workflows[i].convergence_cycles <= MaxConvergence
        /\ applied' = <<result>>
        /\ lastApply' = [base |-> <<base>>, adjustments |-> adjustments,
                         result |-> <<result>>]
        /\ UNCHANGED <<lifeVars, probe, routerVars, evoVars, configFile, generatedFrom,
                       logs, lastCycle, evolveRuns, evalCall, safetyCall,
                   memVars, readVars>>

\* The caller keeps the returned configuration and drops the arguments.
ApplyDone ==
    /\ lastApply # NoApply
    /\ lastApply' = NoApply
    /\ UNCHANGED <<lifeVars, probe, routerVars, evoVars, loopVars, evalCall, safetyCall,
                   memVars, readVars>>

NextApply ==
    \/ \E adjustments \in AdjustmentLists : ApplyAgain(adjustments)
    \/ ApplyDone

----------------------------------------------------------------------------
(* apply_adjustments on the proposals of a suggestion pass *)

\* Configurations the proposals are applied to: one without and two with
\* an agent whose role or layer is spelled like an issue tag.
SkillConfigs ==
    {ApplyConfig,
     [ApplyConfig EXCEPT !.agents[3].layer = "timeout"],
     [ApplyConfig EXCEPT !.agents[1].role = "rate_limit"]}

\* apply_adjustments(config, adjustments) on the list the pass returned.
ApplySuggested(config) ==
    /\ suggested.fresh
    /\ lastApply = NoApply
    /\ applied' = <<apply_adjustments(config, suggested.adjustments)>>
    /\ lastApply' = [base |-> <<config>>, adjustments |-> suggested.adjustments,
                     result |-> applied']
    /\ UNCHANGED <<lifeVars, probe, routerVars, evoVars, configFile, generatedFrom,
                   logs, lastCycle, evolveRuns, evalCall, safetyCall, memVars, readVars>>

NextSuggest ==
    \/ SuggestPass
    \/ \E config \in SkillConfigs : ApplySuggested(config)

----------------------------------------------------------------------------
(* evolution.py: analyze_trends *)

MaxTrendLen == 4   \* length of the evaluation lists analyze_trends is given

\* seq[start:] of Python: a negative start counts from the end, and both
\* are clamped to the sequence.
SliceFrom(seq, start) ==
    LET n == Len(seq)
        from == IF start < 0 THEN (IF start + n < 0 THEN 0 ELSE start + n)
                ELSE (IF start > n THEN n ELSE start)
    IN  SubSeq(seq, from + 1, n)

\* A quotient of the code, kept as numerator and denominator; 0.0 is 0/1.
Ratio(num, den) == [num |-> num, den |-> den]

AllEqual(s, v) == \A i \in DOMAIN s : s[i] = v

\* The float subtraction avg_second - avg_first lands beyond 0.1 although
\* the halves differ by exactly 0.1: 0.8 - 0.7 is 0.10000000000000009 in
\* binary floating point. Over the scores 0.0, 0.7 and 0.8 and windows of up
\* to 6 entries these are all the windows on which the float comparison and
\* the exact one differ, under either summation of FloatSums.
FloatDeltaBeyondTenth(first_half, second_half) ==
    \/ AllEqual(first_half, 7) /\ AllEqual(second_half, 8)
    \/ AllEqual(first_half, 8) /\ AllEqual(second_half, 7)

\* _determine_progress_trend(recent); progress scores are in tenths. For
\* two entries and more both halves are non-empty.
determine_progress_trend(recent) ==
    IF Len(recent) < 2 THEN "stagnant"
    ELSE
        LET midpoint == Len(recent) \div 2
            first_half == Progress(SubSeq(recent, 1, midpoint))
            second_half == Progress(SubSeq(recent, midpoint + 1, Len(recent)))
            \* (avg_second - avg_first) * len(first) * len(second), in tenths
            scaled_delta == SumSeq(second_half) * Len(first_half)
                                - SumSeq(first_half) * Len(second_half)
            tenth == Len(first_half) * Len(second_half)
        IN  IF FloatDeltaBeyondTenth(first_half, second_half)
            THEN (IF scaled_delta > 0 THEN "improving" ELSE "declining")
            ELSE IF scaled_delta > tenth THEN "improving"
            ELSE IF scaled_delta < -tenth THEN "declining"
            ELSE "stagnant"

\* The four results of analyze_trends over the entries recent.
trends_over(recent) ==
    LET total == Len(recent)
        success_count == Cardinality({i \in DOMAIN recent : recent[i].success})
        costs == SelectSeq(Costs(recent), LAMBDA c : c > 0)
    IN  [success_rate |-> Ratio(success_count, total),
         avg_cost |-> IF costs # <<>> THEN Ratio(SumSeq(costs), Len(costs))
                      ELSE Ratio(0, 1),
         progress_trend |-> determine_progress_trend(recent),
         repeated_issues |-> SelectSeq(most_common(IssueStream(recent)),
                                       LAMBDA item : item.count > 1)]

\* analyze_trends(evaluations, window)
analyze_trends(evs, window) ==
    IF evs = <<>>
    THEN [success_rate |-> Ratio(0, 1), avg_cost |-> Ratio(0, 1),
          progress_trend |-> "stagnant", repeated_issues |-> <<>>]
    ELSE trends_over(SliceFrom(evs, -window))

NoTrend == [called |-> FALSE, window |-> 0,
            result |-> [success_rate |-> Ratio(0, 1), avg_cost |-> Ratio(0, 1),
                        progress_trend |-> "", repeated_issues |-> <<>>]]

\* Evaluations as evaluate_cycle produces them, with the progress scores
\* 0.0, 0.7 and 0.8.
TrendEvals ==
    {evaluate_cycle([status |-> "ok", cost |-> 10, cycle |-> 0,
                     summary |-> LongSummary], <<"v2">>, <<"v2">>),
     evaluate_cycle([status |-> "ok", cost |-> 0, cycle |-> 0,
                     summary |-> "done"], <<"v2">>, <<"v1">>),
     evaluate_cycle([status |-> "fail", cost |-> 20, cycle |-> 0,
                     summary |-> "Hit 429 rate limit"], <<"v2">>, <<"v2">>),
     evaluate_cycle([status |-> "timeout", cost |-> 0, cycle |-> 0,
                     summary |-> ""], <<"v2">>, <<"v2">>)}

TrendInputs == UNION {[1..n -> TrendEvals] : n \in 0..MaxTrendLen}

\* The window parameters: none of the list, part of it, all of it, more.
TrendWindows == 0..(MaxTrendLen + 1)

\* One call analyze_trends(evaluations, window).
AnalyzeCall(window) ==
    /\ ~trendCall.called
    /\ trendCall' = [called |-> TRUE, window |-> window,
                     result |-> analyze_trends(evaluations, window)]
    /\ UNCHANGED <<lifeVars, probe, routerVars, evoVars, loopVars, lastApply, evalCall,
                   safetyCall, memVars, parseCall, statusCall, latestCall>>

NextTrends == \E window \in TrendWindows : AnalyzeCall(window)

----------------------------------------------------------------------------
(* The text operations the readers of runtime.py and evolution.py use *)

\* str.splitlines() for the line ends \n, \r and \r\n: the texts between
\* the line ends, and the rest after the last one unless it is empty.
splitlines(text) ==
    LET ends == {i \in 1..Len(text) :
                    \/ CharAt(text, i) = "\n"
                    \/ CharAt(text, i) = "\r"
                          /\ ~(i < Len(text) /\ CharAt(text, i + 1) = "\n")}
        EndAt(k) == CHOOSE i \in ends : Cardinality({j \in ends : j < i}) = k - 1
        StartOf(k) == IF k = 1 THEN 1 ELSE EndAt(k - 1) + 1
        StopOf(k) ==
            IF EndAt(k) > 1 /\ CharAt(text, EndAt(k)) = "\n"
                            /\ CharAt(text, EndAt(k) - 1) = "\r"
            THEN EndAt(k) - 2 ELSE EndAt(k) - 1
        count == Cardinality(ends)
        rest == SubSeq(text, StartOf(count + 1), Len(text))
        ended == [k \in 1..count |-> SubSeq(text, StartOf(k), StopOf(k))]
    IN  IF rest # "" THEN Append(ended, rest) ELSE ended

\* "\n".join(lines)
RECURSIVE join_lines(_)
join_lines(lines) ==
    IF lines = <<>> THEN ""
    ELSE IF Len(lines) = 1 THEN lines[1]
    ELSE lines[1] \o "\n" \o join_lines(Tail(lines))

\* line.partition(sep) for a one-character sep that occurs in line: the
\* text before and after its first occurrence.
partition(line, sep) ==
    LET at == CHOOSE i \in 1..Len(line) :
                  /\ CharAt(line, i) = sep
                  /\ \A j \in 1..(i - 1) : CharAt(line, j) # sep
    IN  [key |-> SubSeq(line, 1, at - 1), value |-> SubSeq(line, at + 1, Len(line))]

\* A dict as the sequence of its items in insertion order.
dict_set(fields, key, value) ==
    IF \E i \in DOMAIN fields : fields[i].key = key
    THEN [i \in DOMAIN fields |->
             IF fields[i].key = key THEN [key |-> key, value |-> value]
             ELSE fields[i]]
    ELSE Append(fields, [key |-> key, value |-> value])

dict_get(fields, key, default) ==
    IF \E i \in DOMAIN fields : fields[i].key = key
    THEN fields[CHOOSE i \in DOMAIN fields : fields[i].key = key].value
    ELSE default

DigitValue ==
    [c \in {"0", "1", "2", "3", "4", "5", "6", "7", "8", "9"} |->
        CHOOSE d \in 0..9 : CharAt("0123456789", d + 1) = c]

IsDigit(c) == c \in DOMAIN DigitValue

\* The value of a text of digits and underscores, underscores skipped.
RECURSIVE DigitsValueFrom(_, _)
DigitsValueFrom(text, acc) ==
    IF text = "" THEN acc
    ELSE IF CharAt(text, 1) = "_" THEN DigitsValueFrom(SubSeq(text, 2, Len(text)), acc)
    ELSE DigitsValueFrom(SubSeq(text, 2, Len(text)),
                         10 * acc + DigitValue[CharAt(text, 1)])

\* Digits, with single underscores between digits allowed.
IsDigitGroup(text) ==
    /\ text # ""
    /\ IsDigit(CharAt(text, 1))
    /\ IsDigit(CharAt(text, Len(text)))
    /\ \A i \in 1..Len(text) : IsDigit(CharAt(text, i)) \/ CharAt(text, i) = "_"
    /\ \A i \in 1..(Len(text) - 1) : ~(CharAt(text, i) = "_" /\ CharAt(text, i + 1) = "_")

Unsigned(text) ==
    IF text # "" /\ CharAt(text, 1) \in {"+", "-"} THEN SubSeq(text, 2, Len(text))
    ELSE text

Sign(text) == IF text # "" /\ CharAt(text, 1) = "-" THEN -1 ELSE 1

\* int(text): <<>> for ValueError, else <<the value>>.
int_of(text) ==
    LET body == Unsigned(strip(text))
    IN  IF IsDigitGroup(body) THEN <<Sign(strip(text)) * DigitsValueFrom(body, 0)>>
        ELSE <<>>

RECURSIVE Power10(_)
Power10(n) == IF n = 0 THEN 1 ELSE 10 * Power10(n - 1)

\* float(text) for texts without an exponent part and with at most three
\* decimals: <<>> for ValueError, else the value in thousandths, or nan or
\* an infinity.
float_of(text) ==
    LET t == strip(text)
        body == Unsigned(t)
        word == lower(body)
        dots == {i \in 1..Len(body) : CharAt(body, i) = "."}
    IN  IF word = "nan" THEN <<[kind |-> "nan", milli |-> 0]>>
        ELSE IF word \in {"inf", "infinity"} THEN <<[kind |-> "inf", milli |-> Sign(t)]>>
        ELSE IF dots = {} THEN
            (IF IsDigitGroup(body)
             THEN <<[kind |-> "finite",
                     milli |-> Sign(t) * DigitsValueFrom(body, 0) * 1000]>>
             ELSE <<>>)
        ELSE IF Cardinality(dots) > 1 THEN <<>>
        ELSE
            LET dot == CHOOSE i \in dots : TRUE
                whole == SubSeq(body, 1, dot - 1)
                frac == SubSeq(body, dot + 1, Len(body))
                digits == Len(SelectSeq([i \in 1..Len(frac) |-> CharAt(frac, i)],
                                        IsDigit))
            IN  IF /\ whole = "" \/ IsDigitGroup(whole)
                   /\ frac = "" \/ IsDigitGroup(frac)
                   /\ whole # "" \/ frac # ""
                   /\ digits <= 3
                THEN <<[kind |-> "finite",
                        milli |-> Sign(t) * (DigitsValueFrom(whole, 0) * 1000
                                    + DigitsValueFrom(frac, 0) * Power10(3 - digits))]>>
                ELSE <<>>

----------------------------------------------------------------------------
(* runtime.py: _parse_cycle_log; evolution.py: the parse in evaluate_cycle *)

\* The loop of _parse_cycle_log over the lines (runtime.py 69-77).
RECURSIVE CycleLogLoop(_, _)
CycleLogLoop(lines, st) ==
    IF lines = <<>> THEN st
    ELSE LET line == Head(lines) IN
         CycleLogLoop(Tail(lines),
            IF strip(line) = "---" THEN [st EXCEPT !.past_separator = TRUE]
            ELSE IF st.past_separator
                 THEN [st EXCEPT !.summary_lines = Append(@, line)]
            ELSE IF Contains(line, ":")
                 THEN LET kv == partition(line, ":")
                      IN  [st EXCEPT !.fields =
                              dict_set(@, strip(kv.key), strip(kv.value))]
            ELSE st)

\* A mutant of _parse_cycle_log: a cost that is missing or does not parse
\* is reported as 0.0.
parse_cycle_log_zero_cost(content) ==
    LET lines == splitlines(strip(content))
        st == CycleLogLoop(lines, [fields |-> <<>>, summary_lines |-> <<>>,
                                   past_separator |-> FALSE])
        cost_str == dict_get(st.fields, "cost", "")
        cost == IF cost_str # "" THEN float_of(cost_str) ELSE <<>>
        cycle == int_of(dict_get(st.fields, "cycle", "0"))
    IN  [cycle_number |-> IF cycle # <<>> THEN cycle[1] ELSE 0,
         status |-> dict_get(st.fields, "status", "unknown"),
         cost_usd |-> IF cost # <<>> THEN cost ELSE <<[kind |-> "finite", milli |-> 0]>>,
         summary |-> join_lines(st.summary_lines),
         timestamp |-> dict_get(st.fields, "timestamp", "")]

\* _parse_cycle_log(log_path) on a file with this content; cost_usd is <<>>
\* for None.
parse_cycle_log(content) ==
    LET lines == splitlines(strip(content))
        st == CycleLogLoop(lines, [fields |-> <<>>, summary_lines |-> <<>>,
                                   past_separator |-> FALSE])
        cost_str == dict_get(st.fields, "cost", "")
        cycle == int_of(dict_get(st.fields, "cycle", "0"))
    IN  [cycle_number |-> IF cycle # <<>> THEN cycle[1] ELSE 0,
         status |-> dict_get(st.fields, "status", "unknown"),
         cost_usd |-> IF cost_str # "" THEN float_of(cost_str) ELSE <<>>,
         summary |-> join_lines(st.summary_lines),
         timestamp |-> dict_get(st.fields, "timestamp", "")]

\* The loop of _parse_cycle_log_content (evolution.py 453-461).
RECURSIVE LogContentLoop(_, _)
LogContentLoop(lines, st) ==
    IF lines = <<>> THEN st
    ELSE LET line == Head(lines) IN
         LogContentLoop(Tail(lines),
            IF strip(line) = "---" THEN [st EXCEPT !.past_separator = TRUE]
            ELSE IF st.past_separator
                 THEN [st EXCEPT !.summary_lines = Append(@, line)]
            ELSE IF Contains(line, ":")
                 THEN LET kv == partition(line, ":")
                      IN  [st EXCEPT !.fields =
                              dict_set(@, strip(kv.key), strip(kv.value))]
            ELSE st)

\* _parse_cycle_log_content(content): the fields and the summary.
parse_cycle_log_content(content) ==
    LET st == LogContentLoop(splitlines(strip(content)),
                             [fields |-> <<>>, summary_lines |-> <<>>,
                              past_separator |-> FALSE])
    IN  [fields |-> st.fields, summary |-> join_lines(st.summary_lines)]

\* What evaluate_cycle reads from the log text (evolution.py 61-80): the
\* record evaluate_cycle above works on.
read_cycle_log(content) ==
    LET parsed == parse_cycle_log_content(content)
        fields == parsed.fields
        cost_str == dict_get(fields, "cost", "")
        cost == IF cost_str # "" THEN float_of(cost_str) ELSE <<>>
        cycle == int_of(dict_get(fields, "cycle", "0"))
    IN  [status |-> dict_get(fields, "status", "unknown"),
         cost |-> IF cost # <<>> THEN cost[1] ELSE [kind |-> "finite", milli |-> 0],
         cycle |-> IF cycle # <<>> THEN cycle[1] ELSE 0,
         summary |-> parsed.summary]

NoParse == [called |-> FALSE, content |-> "", result |-> parse_cycle_log(""),
            evaluation |-> read_cycle_log("")]

\* Cycle logs: each header line missing, well-formed or malformed, with
\* and without a summary part.
CycleLines == {"", "cycle: 7\n", "cycle: seven\n", " cycle : 1_2 \n"}
StatusLines ==
    {"", "status: ok\n", "status:fail\r\n", "Status: ok\n",
     "status: ok\nstatus: timeout\n"}
CostLines ==
    {"", "cost: 0.42\n", "cost: n/a\n", "cost:\n", "cost: nan\n", "cost: -1.5\n",
     "cost: 0\n"}
LogTails ==
    {"", "---\nDid the work\n", " --- \nHit 429: rate limit\n---\n\nmore\n\n",
     "timestamp: 2026-11-02T10:00:00\n---"}

LogContents ==
    {c \o st \o co \o t : c \in CycleLines, st \in StatusLines, co \in CostLines,
                          t \in LogTails}

NoReaderCalled == ~parseCall.called /\ ~statusCall.called /\ ~latestCall.called

\* One cycle log read by get_latest_cycle's parser and by evaluate_cycle.
ParseCall(content) ==
    /\ NoReaderCalled
    /\ parseCall' = [called |-> TRUE, content |-> content,
                     result |-> parse_cycle_log(content),
                     evaluation |-> read_cycle_log(content)]
    /\ UNCHANGED <<lifeVars, probe, routerVars, evoVars, loopVars, lastApply, evalCall,
                   safetyCall, memVars, trendCall, statusCall, latestCall>>

----------------------------------------------------------------------------
(* runtime.py: get_status *)

\* The loop of _parse_state_file over the lines.
RECURSIVE StateFileLoop(_, _)
StateFileLoop(lines, result) ==
    IF lines = <<>> THEN result
    ELSE LET line == strip(Head(lines)) IN
         StateFileLoop(Tail(lines),
            IF Contains(line, "=")
            THEN LET kv == partition(line, "=")
                 IN  dict_set(result, strip(kv.key), strip(kv.value))
            ELSE result)

\* _parse_state_file(state_path); the file is <<>> when it does not exist.
parse_state_file(state_file) ==
    IF state_file = <<>> THEN <<>>
    ELSE StateFileLoop(splitlines(strip(state_file[1])), <<>>)

\* get_status(output_dir): <<>> for None.
get_status(state_file) ==
    LET fields == parse_state_file(state_file)
        loop_count == int_of(dict_get(fields, "cycle_count", "0"))
        error_count == int_of(dict_get(fields, "error_count", "0"))
    IN  IF fields = <<>> THEN <<>>
        ELSE <<[loop_count |-> IF loop_count # <<>> THEN loop_count[1] ELSE 0,
                error_count |-> IF error_count # <<>> THEN error_count[1] ELSE 0,
                status |-> dict_get(fields, "status", "unknown"),
                model |-> dict_get(fields, "model", ""),
                engine |-> dict_get(fields, "engine", ""),
                last_run |-> dict_get(fields, "last_run", "")]>>

NoStatus == [called |-> FALSE, state_file |-> <<>>, result |-> <<>>]

\* State files: complete, partially written, empty, with malformed counts.
CountLines ==
    {"", "cycle_count=3\n", "cycle_count=abc\n", "cycle_count = 1_0 \n",
     "cycle_count=\n"}
ErrorLines == {"", "error_count=2\n", "error_count=2.5\n"}
StateLines == {"", "status=running\n", "status=\n"}
StateTails ==
    {"", "model=opus\nengine=claude\nlast_run=2026-11-02 10:00:00\n",
     "model=opus\nengine", "# written by auto-loop\n\n", "=\n"}

StateFiles ==
    {<<>>} \cup {<<c \o e \o st \o t>> : c \in CountLines, e \in ErrorLines,
                                         st \in StateLines, t \in StateTails}

StatusCall(state_file) ==
    /\ NoReaderCalled
    /\ statusCall' = [called |-> TRUE, state_file |-> state_file,
                      result |-> get_status(state_file)]
    /\ UNCHANGED <<lifeVars, probe, routerVars, evoVars, loopVars, lastApply, evalCall,
                   safetyCall, memVars, trendCall, parseCall, latestCall>>

----------------------------------------------------------------------------
(* runtime.py: get_latest_cycle *)

MaxListing == 2   \* entries of the logs directory

StartsWith(text, prefix) ==
    Len(text) >= Len(prefix) /\ SubSeq(text, 1, Len(prefix)) = prefix

EndsWith(text, suffix) ==
    Len(text) >= Len(suffix)
        /\ SubSeq(text, Len(text) - Len(suffix) + 1, Len(text)) = suffix

\* log_dir.glob("cycle-*.log") on one name.
glob_cycle_log(name) ==
    /\ Len(name) >= Len("cycle-") + Len(".log")
    /\ StartsWith(name, "cycle-")
    /\ EndsWith(name, ".log")

\* _extract_cycle_number(filename): re.search(r"cycle-(\d+)\.log$").
extract_cycle_number(filename) ==
    LET stem == SubSeq(filename, 1, Len(filename) - Len(".log"))
        hits == {i \in 1..Len(stem) :
                    /\ i + 5 < Len(stem)
                    /\ SubSeq(stem, i, i + 5) = "cycle-"
                    /\ \A j \in (i + 6)..Len(stem) : IsDigit(CharAt(stem, j))}
    IN  IF EndsWith(filename, ".log") /\ hits # {}
        THEN DigitsValueFrom(SubSeq(stem, FirstHit(hits) + 6, Len(stem)), 0)
        ELSE 0

\* get_latest_cycle(output_dir): log_dir is <<>> when it is no directory,
\* else <<the entries in the order glob yields them>>; <<>> for None. The
\* sort is stable, so of the entries with the greatest number the first
\* yielded is cycle_logs[0]; _parse_cycle_log returns None for an entry
\* that is not a file.
get_latest_cycle(log_dir) ==
    IF log_dir = <<>> THEN <<>>
    ELSE
        LET cycle_logs == SelectSeq(log_dir[1], LAMBDA e : glob_cycle_log(e.name))
            top == FirstHit({i \in DOMAIN cycle_logs :
                                \A j \in DOMAIN cycle_logs :
                                    extract_cycle_number(cycle_logs[j].name)
                                        <= extract_cycle_number(cycle_logs[i].name)})
        IN  IF cycle_logs = <<>> THEN <<>>
            ELSE IF ~cycle_logs[top].is_file THEN <<>>
            ELSE <<parse_cycle_log(cycle_logs[top].content)>>

NoLatest == [called |-> FALSE, log_dir |-> <<>>, result |-> <<>>]

\* A cycle log as the driver writes it; the summary tells the files apart.
LogFile(name, cycle) ==
    [name |-> name, is_file |-> TRUE,
     content |-> "cycle: " \o cycle \o "\nstatus: ok\ncost: 0.42\n---\nfrom " \o name]

\* What the logs directory can hold: cycle logs, another log, files whose
\* names only resemble those of cycle logs, and a directory.
LogEntries ==
    {LogFile("cycle-2.log", "2"), LogFile("cycle-9.log", "9"),
     LogFile("cycle-10.log", "10"), LogFile("auto-loop.log", "0"),
     LogFile("cycle-latest.log", "10"), LogFile("cycle-cycle-11.log", "11"),
     [name |-> "cycle-12.log", is_file |-> FALSE, content |-> ""]}

LogDirs ==
    {<<>>} \cup
    {<<listing>> : listing \in
        {l \in UNION {[1..n -> LogEntries] : n \in 0..MaxListing} :
            \A i, j \in DOMAIN l : l[i].name = l[j].name => i = j}}

LatestCall(log_dir) ==
    /\ NoReaderCalled
    /\ latestCall' = [called |-> TRUE, log_dir |-> log_dir,
                      result |-> get_latest_cycle(log_dir)]
    /\ UNCHANGED <<lifeVars, probe, routerVars, evoVars, loopVars, lastApply, evalCall,
                   safetyCall, memVars, trendCall, parseCall, statusCall>>

NextReaders ==
    \/ \E content \in LogContents : ParseCall(content)
    \/ \E state_file \in StateFiles : StatusCall(state_file)
    \/ \E log_dir \in LogDirs : LatestCall(log_dir)

----------------------------------------------------------------------------
(* The specifications *)

EvoParked ==
    /\ evaluations = <<>>
    /\ suggested = Stale

NoCycle == [ran |-> FALSE, env |-> NoEnv, files |-> <<>>, sawApplied |-> <<>>]

MemParked ==
    /\ clock = 0
    /\ consensus = Absent
    /\ backups = [stamp \in Stamps |-> Absent]
    /\ tickets = {}
    /\ memCall = NoMem

ReadParked ==
    /\ trendCall = NoTrend
    /\ parseCall = NoParse
    /\ statusCall = NoStatus
    /\ latestCall = NoLatest

AuxParked ==
    /\ lastApply = NoApply
    /\ evalCall = NoEval
    /\ safetyCall = NoSafety
    /\ MemParked
    /\ ReadParked

LoopParked ==
    /\ AuxParked
    /\ configFile = BaseConfig
    /\ generatedFrom = <<>>
    /\ applied = <<>>
    /\ logs = <<>>
    /\ lastCycle = NoCycle
    /\ evolveRuns = 0

Init ==
    /\ InitLife
    /\ probe = "none"
    /\ RouterParked
    /\ EvoParked
    /\ LoopParked

Next ==
    \/ \E c \in Callers : StartCheck(c)
    \/ \E c \in Callers, foreground \in BOOLEAN : StartLaunch(c, foreground)
    \/ \E c \in Callers : StopLoop(c)
    \/ \E c \in Callers : Return(c)
    \/ \E p \in Pids : DriverWritePid(p)
    \/ \E p \in Pids, clean \in BOOLEAN : DriverExit(p, clean)
    \/ ForeignLaunch

Spec == Init /\ [][Next]_vars

InitProbe ==
    /\ scriptPresent = TRUE
    /\ pidFile \in PidContents
    /\ procs \in [Pids -> ProbeProcs]
    /\ pc = [c \in Callers |-> "idle"]
    /\ ret = [c \in Callers |-> 0]
    /\ executed = {}
    /\ safetyChecked = {}
    /\ probe = "none"
    /\ RouterParked
    /\ EvoParked
    /\ LoopParked

NextProbe == ProbeCall

SpecProbe == InitProbe /\ [][NextProbe]_vars

LifeParked ==
    /\ scriptPresent = TRUE
    /\ pidFile = Absent
    /\ procs = [p \in Pids |-> NoProc]
    /\ pc = [c \in Callers |-> "idle"]
    /\ ret = [c \in Callers |-> 0]
    /\ executed = {}
    /\ safetyChecked = {}
    /\ probe = "none"

InitSpecRouter ==
    /\ LifeParked
    /\ InitRouter
    /\ EvoParked
    /\ LoopParked

InitEvolve ==
    /\ LifeParked
    /\ RouterParked
    /\ EvoParked
    /\ LoopParked

SpecEvolve == InitEvolve /\ [][NextEvolve]_vars

InitSuggest ==
    /\ LifeParked
    /\ RouterParked
    /\ evaluations \in SuggestInputs
    /\ suggested = Stale
    /\ LoopParked

SpecSuggest == InitSuggest /\ [][NextSuggest]_vars

InitApply ==
    /\ LifeParked
    /\ RouterParked
    /\ EvoParked
    /\ AuxParked
    /\ configFile = ApplyConfig
    /\ generatedFrom = <<>>
    /\ applied = <<>>
    /\ logs = <<>>
    /\ lastCycle = NoCycle
    /\ evolveRuns = 0

SpecApply == InitApply /\ [][NextApply]_vars

InitEvaluate ==
    /\ LifeParked
    /\ RouterParked
    /\ EvoParked
    /\ LoopParked

SpecEvaluate == InitEvaluate /\ [][NextEvaluate]_vars

InitSafety ==
    /\ LifeParked
    /\ RouterParked
    /\ EvoParked
    /\ LoopParked

SpecSafety == InitSafety /\ [][NextSafety]_vars

InitTrends ==
    /\ LifeParked
    /\ RouterParked
    /\ evaluations \in TrendInputs
    /\ suggested = Stale
    /\ LoopParked

SpecTrends == InitTrends /\ [][NextTrends]_vars

InitReaders ==
    /\ LifeParked
    /\ RouterParked
    /\ EvoParked
    /\ LoopParked

SpecReaders == InitReaders /\ [][NextReaders]_vars

InitMemory ==
    /\ LifeParked
    /\ RouterParked
    /\ EvoParked
    /\ LoopParked

SpecMemory == InitMemory /\ [][NextMemory]_vars

InitLoop ==
    /\ LifeParked
    /\ RouterParked
    /\ EvoParked
    /\ LoopParked

SpecLoop == InitLoop /\ [][NextLoop]_vars

SpecRouter == InitSpecRouter /\ [][NextRouter]_vars

----------------------------------------------------------------------------
(* Claims about the process lifecycle *)

\* The PID file exists and names a process that answers the signal-0 probe
\* of the tool's user: it is alive and the user may signal it.
PidFileNamesLive ==
    /\ pidFile.kind = "int"
    /\ pidFile.int \in Pids
    /\ procs[pidFile.int].state = "alive"
    /\ procs[pidFile.int].owner = "self"

\* The PID file names a process that is alive but belongs to another user,
\* so that the probe is refused with permission-denied.
PidFileNamesForeign ==
    /\ pidFile.kind = "int"
    /\ pidFile.int \in Pids
    /\ procs[pidFile.int].state = "alive"
    /\ procs[pidFile.int].owner = "other"

StartOutcomes == {"checked", "raised", "missing", "error"}

\* C1: a start call issued while the script is present and the PID file
\* names a live process (one that answers the signal-0 probe) ends with the
\* already-running error, and the step creates no process and runs no
\* command; this is a property of every step, whatever start and stop calls
\* came before.
C1_StartRejectedWhenLive ==
    [][\A c \in Callers :
          (/\ pc[c] = "idle"
           /\ pc'[c] \in StartOutcomes
           /\ scriptPresent
           /\ PidFileNamesLive)
          => (pc'[c] = "raised" /\ procs' = procs /\ executed' = executed)]_vars

\* A start was rejected while a live driver holds the PID file, after a stop
\* call had already been made.
C1_Witness ==
    \E c \in Callers :
        /\ pc[c] = "raised"
        /\ PidFileNamesLive
        /\ "stop-loop.sh" \in executed

\* C2: every external command the controller has executed was passed to
\* check_command_safety before.
C2_EveryCommandChecked == executed \subseteq safetyChecked

\* C6: a start call in foreground mode has returned only if its child has
\* finished: the child of a call that has returned is alive only if it was
\* started in background mode.
C6_ForegroundBlocks ==
    \A c \in Callers :
        (pc[c] = "returned" /\ procs[ret[c]].state = "alive") => ~procs[ret[c]].fg

\* C7: the launch is not guarded by the liveness check: a start call that
\* passed the check creates a new live driver in its next step and returns
\* its pid, whatever drivers are alive by then.
C7_CheckedStartLaunches ==
    [][\A c \in Callers :
          (pc[c] = "checked" /\ pc'[c] # "checked")
          => (/\ pc'[c] = "returned"
              /\ ret'[c] \in Pids
              /\ procs[ret'[c]].state = "none"
              /\ procs'[ret'[c]].state = "alive")]_vars

\* Two start calls of the same user have both returned, their drivers are
\* both alive, and no PID file was ever visible: no process has exited, no
\* stop was issued and the PID file does not exist.
C7_Witness ==
    \E c, d \in Callers :
        /\ c # d
        /\ pc[c] = "returned" /\ pc[d] = "returned"
        /\ ret[c] # ret[d]
        /\ procs[ret[c]].state = "alive" /\ procs[ret[d]].state = "alive"
        /\ \A p \in Pids : procs[p].state # "exited" /\ procs[p].owner = "self"
        /\ pidFile = Absent
        /\ "stop-loop.sh" \notin executed

----------------------------------------------------------------------------
(* Claims about is_running *)

\* C4: when the PID file holds an integer and the probe is refused with
\* permission-denied, is_running answers True.
C4_PermissionDeniedIsRunning ==
    (probe # "none" /\ PidFileNamesForeign) => probe = "True"

\* C5: is_running never raises, answers True only if the PID file names a
\* live process, and answers False for a missing file, a content that is not
\* an integer, a dead process and a refused probe.
C5_IsRunningTotal ==
    probe # "none" =>
        /\ probe \in {"True", "False"}
        /\ probe = "True" =>
              (pidFile.kind = "int" /\ procs[pidFile.int].state = "alive")
        /\ (pidFile.kind \in {"absent", "text", "binary"}) => probe = "False"
        /\ (pidFile.kind = "int" /\ procs[pidFile.int].state # "alive")
              => probe = "False"
        /\ PidFileNamesForeign => probe = "False"

----------------------------------------------------------------------------
(* Claims about the router *)

\* C8: for a non-empty provider list, select_provider returns an element of
\* the list, and if some provider's model equals the layer's optimal tier,
\* so does the model of the returned provider.
C8_SelectFromListAtTier ==
    (route.op = "select" /\ providers # <<>>) =>
        /\ route.error = ""
        /\ Len(route.provider) = 1
        /\ route.provider[1] \in Range(providers)
        /\ (\E p \in Range(providers) : p.model = get_optimal_model(route.layer))
              => route.provider[1].model = get_optimal_model(route.layer)

\* A selection in which a provider of another tier has a higher priority
\* than every provider of the optimal tier.
C8_Witness ==
    /\ route.op = "select"
    /\ \E p, q \in Range(providers) :
          /\ p.model = get_optimal_model(route.layer)
          /\ q.model # get_optimal_model(route.layer)
          /\ \A r \in Range(providers) :
                r.model = get_optimal_model(route.layer) => r.priority < q.priority

\* Positions of the providers that differ from current in some field and
\* pass the health check.
Eligible(current) ==
    {i \in DOMAIN providers :
        providers[i] # current /\ check_provider_health(providers[i])}

\* C9: failover returns the eligible provider of highest priority, the
\* earliest in input order among equal priorities; it returns None exactly
\* when no provider is eligible, and never a provider equal to current.
C9_FailoverHighestEligible ==
    route.op = "failover" =>
        LET current == route.current[1]
            E == Eligible(current)
        IN  /\ (route.provider = <<>>) <=> (E = {})
            /\ route.provider # <<current>>
            /\ E # {} =>
                  \E i \in E :
                      /\ route.provider = <<providers[i]>>
                      /\ \A j \in E : providers[j].priority <= providers[i].priority
                      /\ \A j \in E :
                            providers[j].priority = providers[i].priority => i <= j

\* A failover in which current is in the list, a candidate that is not the
\* first of the list fails its health check, and two different eligible
\* candidates share the highest priority.
C9_Witness ==
    /\ route.op = "failover"
    /\ route.current[1] \in Range(providers)
    /\ \E i, j \in Eligible(route.current[1]) :
          /\ i < j
          /\ providers[i] # providers[j]
          /\ providers[i].priority = providers[j].priority
          /\ route.provider = <<providers[i]>>

\* Positions select_provider chooses from: those of the layer's optimal
\* tier if there are any, else all.
Pool ==
    LET matching == {i \in DOMAIN providers :
                        providers[i].model = get_optimal_model(route.layer)}
    IN  IF matching # {} THEN matching ELSE DOMAIN providers

TwoHighestHealthy(a, b) ==
    /\ a # b
    /\ {a, b} \subseteq Range(providers)
    /\ check_provider_health(a)
    /\ check_provider_health(b)
    /\ \A p \in Range(providers) \ {a, b} :
          check_provider_health(p) => (p.priority < a.priority /\ p.priority < b.priority)

\* C30: when failover(a, providers) returned b and a and b are the two
\* healthy providers of highest priority, the next failover of the chain,
\* failover(b, providers), returns a again and not None.
C30_FailoverReturnsFailed ==
    [][(/\ route.op \in {"failover", "failover_again"}
        /\ route.provider # <<>>
        /\ route'.op = "failover_again"
        /\ TwoHighestHealthy(route.current[1], route.provider[1]))
       => (/\ route'.current = route.provider
           /\ route'.provider = route.current)]_vars

\* The chain is back at a provider that failed before: a third healthy
\* provider of lower priority is in the list and was never returned.
C30_Witness ==
    /\ route.op = "failover_again"
    /\ route.provider # <<>>
    /\ TwoHighestHealthy(route.current[1], route.provider[1])
    /\ \E p \in Range(providers) \ {route.current[1], route.provider[1]} :
          check_provider_health(p)

----------------------------------------------------------------------------
(* Claims about the evaluation and adjustment passes *)

\* The number of consecutive failed evaluations counted backward from the
\* last one: the length of the longest all-failed suffix.
TrailingFailed(evs) ==
    CHOOSE k \in 0..Len(evs) :
        /\ \A i \in (Len(evs) - k + 1)..Len(evs) : ~evs[i].success
        /\ k = Len(evs) \/ evs[Len(evs) - k].success

UpgradeEntries(adjs) == {i \in DOMAIN adjs : adjs[i].type = "upgrade_model"}

\* C10: for every non-empty evaluation list, the proposals of a pass hold
\* exactly one upgrade_model entry (target primary, sonnet to opus) when the
\* last three or more evaluations failed and none otherwise; in particular
\* none once a successful evaluation is the last one.
C10_UpgradeIffThreeTrailingFailures ==
    (suggested.fresh /\ evaluations # <<>>) =>
        LET ups == UpgradeEntries(suggested.adjustments) IN
        /\ Cardinality(ups) = IF TrailingFailed(evaluations) >= 3 THEN 1 ELSE 0
        /\ \A i \in ups :
              suggested.adjustments[i] =
                  Adjustment("upgrade_model", "primary", "sonnet", "opus")
        /\ evaluations[Len(evaluations)].success => ups = {}

\* A pass over a success followed by four failures: the proposal made after
\* the third failure is made again after the fourth.
C10_Witness ==
    /\ suggested.fresh
    /\ Len(evaluations) = 5
    /\ evaluations[1].success
    /\ \A i \in 2..5 : ~evaluations[i].success
    /\ Cardinality(UpgradeEntries(suggested.adjustments)) = 1

\* C3: a cycle that runs after adjustments were applied works from the
\* adjusted configuration: the generated files it reads and the environment
\* of its driver are those of the configuration apply_adjustments returned.
C3_CyclesUseAppliedConfig ==
    (lastCycle.ran /\ lastCycle.sawApplied # <<>>) =>
        /\ lastCycle.files = lastCycle.sawApplied
        /\ lastCycle.env = build_env_from_config(lastCycle.sawApplied[1])

\* The last min(5, n) positions of the evaluation list.
RecentPositions == {i \in DOMAIN evaluations : i > Len(evaluations) - 5}

\* The occurrences of an issue tag among the last five evaluations.
Occurrences(tag) ==
    {p \in RecentPositions \X (1..2) :
        /\ p[2] \in DOMAIN evaluations[p[1]].issues
        /\ evaluations[p[1]].issues[p[2]] = tag}

RecentTags ==
    {evaluations[i].issues[j] : <<i, j>> \in
        {p \in RecentPositions \X (1..2) : p[2] \in DOMAIN evaluations[p[1]].issues}}

SeenBefore(p, q) == p[1] < q[1] \/ (p[1] = q[1] /\ p[2] <= q[2])

FirstSeenAt(tag) ==
    CHOOSE p \in Occurrences(tag) : \A q \in Occurrences(tag) : SeenBefore(p, q)

\* The tag of highest count, the first seen among those of equal count.
IsMostFrequent(tag) ==
    \A other \in RecentTags :
        \/ Cardinality(Occurrences(other)) < Cardinality(Occurrences(tag))
        \/ /\ Cardinality(Occurrences(other)) = Cardinality(Occurrences(tag))
           /\ SeenBefore(FirstSeenAt(tag), FirstSeenAt(other))

AddSkillEntries(adjs) == {i \in DOMAIN adjs : adjs[i].type = "add_skill"}

RecentEvaluations ==
    [k \in 1..Cardinality(RecentPositions) |->
        evaluations[Len(evaluations) - Cardinality(RecentPositions) + k]]

DowngradeEntries(adjs) == {i \in DOMAIN adjs : adjs[i].type = "downgrade_model"}

\* C12: a pass proposes downgrade_model (target business, opus to sonnet)
\* exactly when, over the last min(5, n) evaluations, the mean cost exceeds
\* 0.5 and the mean progress score is below 0.3; the entry does not depend on
\* the upgrade_model entry and comes after it.
C12_DowngradeIffCostlyAndSlow ==
    (suggested.fresh /\ evaluations # <<>>) =>
        LET downs == DowngradeEntries(suggested.adjustments)
            n == Len(RecentEvaluations)
            total_cost == SumSeq([k \in 1..n |-> RecentEvaluations[k].cost_usd])
            total_progress == SumSeq([k \in 1..n |-> RecentEvaluations[k].progress_score])
        IN  /\ (downs # {}) <=> (total_cost > 5 * n /\ total_progress < 3 * n)
            /\ Cardinality(downs) <= 1
            /\ \A i \in downs :
                  /\ suggested.adjustments[i] =
                         Adjustment("downgrade_model", "business", "opus", "sonnet")
                  /\ \A j \in UpgradeEntries(suggested.adjustments) : j < i

\* The number of consecutive evaluations without a consensus change counted
\* backward from the last one.
TrailingUnchanged(evs) ==
    CHOOSE k \in 0..Len(evs) :
        /\ \A i \in (Len(evs) - k + 1)..Len(evs) : ~evs[i].consensus_changed
        /\ k = Len(evs) \/ evs[Len(evs) - k].consensus_changed

WorkflowEntries(adjs) == {i \in DOMAIN adjs : adjs[i].type = "change_workflow"}

\* C13: a pass proposes change_workflow (target consensus, current to
\* restructured) exactly when the last five or more evaluations left the
\* consensus unchanged; after an evaluation with a changed consensus no pass
\* proposes it until five further evaluations have been appended.
C13_WorkflowIffFiveUnchanged ==
    suggested.fresh =>
        LET ws == WorkflowEntries(suggested.adjustments) IN
        /\ Cardinality(ws) = IF TrailingUnchanged(evaluations) >= 5 THEN 1 ELSE 0
        /\ \A i \in ws :
              suggested.adjustments[i] =
                  Adjustment("change_workflow", "consensus", "current", "restructured")
        /\ \A k \in DOMAIN evaluations :
              (evaluations[k].consensus_changed /\ Len(evaluations) - k < 5) => ws = {}

\* A pass after a changed consensus followed by five unchanged cycles: the
\* proposal is made again, five cycles after the reset.
C13_Witness ==
    /\ suggested.fresh
    /\ Len(evaluations) = 6
    /\ evaluations[1].consensus_changed
    /\ \A i \in 2..6 : ~evaluations[i].consensus_changed
    /\ WorkflowEntries(suggested.adjustments) # {}

----------------------------------------------------------------------------
(* Claims about apply_adjustments *)

CallBase == lastApply.base[1]
CallResult == lastApply.result[1]
CallAdjustments == {lastApply.adjustments[i] : i \in DOMAIN lastApply.adjustments}

RolesOf(config) == [i \in DOMAIN config.agents |-> config.agents[i].role]

AgentOf(config, role) ==
    config.agents[CHOOSE i \in DOMAIN config.agents : config.agents[i].role = role]

\* An adjustment that sets a model: its new_value names a tier.
SetsModel(adj) ==
    /\ adj.type \in {"upgrade_model", "downgrade_model"}
    /\ lower(adj.new_value) \in {"opus", "sonnet", "haiku"}

\* An adjustment of a type apply_adjustments acts on.
Acts(adj) ==
    \/ SetsModel(adj)
    \/ adj.type \in {"add_skill", "remove_agent", "change_workflow"}

Targets(adj, agent) ==
    adj.target = "primary" \/ adj.target = agent.role \/ adj.target = agent.layer

IsPrefix(s, t) == Len(s) <= Len(t) /\ SubSeq(t, 1, Len(s)) = s

\* C14: a call changes only what the types of its adjustments own: models by
\* upgrade_model/downgrade_model with a known tier on targeted agents, skills
\* by add_skill on targeted agents, presence of agents by remove_agent,
\* convergence_cycles by change_workflow; other adjustments change nothing;
\* company, runtime, guardrails and the order of the agents that stay are
\* those of the input.
C14_ApplyFrame ==
    lastApply # NoApply =>
        /\ CallResult.company = CallBase.company
        /\ CallResult.runtime = CallBase.runtime
        /\ CallResult.guardrails = CallBase.guardrails
        /\ RolesOf(CallResult) =
              SelectSeq(RolesOf(CallBase),
                        LAMBDA r : ~\E adj \in CallAdjustments :
                                       adj.type = "remove_agent" /\ adj.target = r)
        /\ \A i \in DOMAIN CallResult.agents :
              LET new == CallResult.agents[i]
                  old == AgentOf(CallBase, new.role)
              IN  /\ new.layer = old.layer
                  /\ new.model # old.model =>
                        \E adj \in CallAdjustments :
                            /\ SetsModel(adj)
                            /\ Targets(adj, old)
                            /\ new.model = lower(adj.new_value)
                  /\ IsPrefix(old.skills, new.skills)
                  /\ \A k \in (Len(old.skills) + 1)..Len(new.skills) :
                        \E adj \in CallAdjustments :
                            /\ adj.type = "add_skill"
                            /\ Targets(adj, old)
                            /\ new.skills[k] = adj.new_value
        /\ DOMAIN CallResult.workflows = DOMAIN CallBase.workflows
        /\ \A i \in DOMAIN CallBase.workflows :
              /\ CallResult.workflows[i].id = CallBase.workflows[i].id
              /\ CallResult.workflows[i] # CallBase.workflows[i] =>
                    \E adj \in CallAdjustments : adj.type = "change_workflow"
        /\ (\A adj \in CallAdjustments : ~Acts(adj)) => CallResult = CallBase

\* A call with a model adjustment naming no tier and a remove_agent for the
\* middle one of three agents: the two others stay, in their order.
C14_Witness ==
    /\ lastApply # NoApply
    /\ \E adj \in CallAdjustments :
          adj.type = "upgrade_model" /\ ~SetsModel(adj)
    /\ \E adj \in CallAdjustments : adj.type = "remove_agent"
    /\ Len(CallBase.agents) = 3
    /\ CallResult.agents = <<CallBase.agents[1], CallBase.agents[3]>>

\* C24: in a call with one adjustment, a model adjustment naming a tier
\* sets the model of exactly the agents it targets (all agents for
\* "primary", else those whose role or layer is the target), add_skill
\* gives the skill to exactly those agents, and remove_agent removes
\* exactly the agents whose role is the target; every other agent is as in
\* the input.
C24_TargetMatching ==
    (lastApply # NoApply /\ Len(lastApply.adjustments) = 1) =>
        LET adj == lastApply.adjustments[1]
            old == CallBase.agents
            new == CallResult.agents
        IN  /\ SetsModel(adj) =>
                  /\ DOMAIN new = DOMAIN old
                  /\ \A i \in DOMAIN old :
                        new[i] = IF Targets(adj, old[i])
                                 THEN [old[i] EXCEPT !.model = lower(adj.new_value)]
                                 ELSE old[i]
            /\ adj.type = "add_skill" =>
                  /\ DOMAIN new = DOMAIN old
                  /\ \A i \in DOMAIN old :
                        IF Targets(adj, old[i])
                        THEN /\ \E k \in DOMAIN new[i].skills :
                                    new[i].skills[k] = adj.new_value
                             /\ [new[i] EXCEPT !.skills = old[i].skills] = old[i]
                        ELSE new[i] = old[i]
            /\ adj.type = "remove_agent" =>
                  new = SelectSeq(old, LAMBDA a : a.role # adj.target)

\* A remove_agent whose target is the layer of an agent and the role of
\* none: all three agents stay.
C24_Witness ==
    /\ lastApply # NoApply
    /\ Len(lastApply.adjustments) = 1
    /\ lastApply.adjustments[1].type = "remove_agent"
    /\ \E i \in DOMAIN CallBase.agents :
          CallBase.agents[i].layer = lastApply.adjustments[1].target
    /\ Len(CallBase.agents) = 3
    /\ CallResult.agents = CallBase.agents

IssueTags == {"rate_limit", "auth_error", "timeout", "general_failure"}

\* C28: an add_skill adjustment that suggest_adjustments returned has an
\* issue tag as its target, and applying the returned list to a
\* configuration in which no agent's role or layer is that tag leaves the
\* skills of every agent as they were.
C28_SuggestedSkillReachesNoAgent ==
    lastApply # NoApply =>
        \A adj \in CallAdjustments :
            adj.type = "add_skill" =>
                /\ adj.target \in IssueTags
                /\ (\A i \in DOMAIN CallBase.agents :
                        /\ CallBase.agents[i].role # adj.target
                        /\ CallBase.agents[i].layer # adj.target)
                   => /\ DOMAIN CallResult.agents = DOMAIN CallBase.agents
                      /\ \A i \in DOMAIN CallBase.agents :
                            CallResult.agents[i].skills = CallBase.agents[i].skills

\* The proposal for rate_limit was applied together with upgrade_model to
\* a configuration with an agent of layer timeout: no skill list changed.
C28_Witness ==
    /\ lastApply # NoApply
    /\ \E adj \in CallAdjustments : adj.type = "add_skill" /\ adj.target = "rate_limit"
    /\ \E adj \in CallAdjustments : adj.type = "upgrade_model"
    /\ \E i \in DOMAIN CallBase.agents : CallBase.agents[i].layer = "timeout"
    /\ \A i \in DOMAIN CallBase.agents :
          CallResult.agents[i].skills = CallBase.agents[i].skills
    /\ CallResult # CallBase

NoDuplicates(s) == \A j, k \in DOMAIN s : s[j] = s[k] => j = k

\* C15: applying an add_skill adjustment again, in the same list or in a
\* later call on the result, gives the configuration of applying it once; no
\* skill list holds a skill twice.
C15_AddSkillIdempotent ==
    lastApply # NoApply =>
        /\ \A i \in DOMAIN CallResult.agents : NoDuplicates(CallResult.agents[i].skills)
        /\ \A adj \in CallAdjustments :
              adj.type = "add_skill" =>
                  /\ apply_adjustments(CallResult, <<adj>>) = CallResult
                  /\ lastApply.adjustments = <<adj, adj>> =>
                        CallResult = apply_adjustments(CallBase, <<adj>>)

\* A call with the same add_skill twice in which an agent gained the skill.
C15_Witness ==
    /\ lastApply # NoApply
    /\ \E adj \in CallAdjustments :
          /\ adj.type = "add_skill"
          /\ lastApply.adjustments = <<adj, adj>>
          /\ \E i \in DOMAIN CallResult.agents :
                /\ \E k \in DOMAIN CallResult.agents[i].skills :
                      CallResult.agents[i].skills[k] = adj.new_value
                /\ \A k \in DOMAIN AgentOf(CallBase, CallResult.agents[i].role).skills :
                      AgentOf(CallBase, CallResult.agents[i].role).skills[k]
                          # adj.new_value

\* max(1, n + 1), k times.
RECURSIVE Raised(_, _)
Raised(n, k) == IF k = 0 THEN n ELSE Raised(IF n >= 0 THEN n + 1 ELSE 1, k - 1)

WorkflowChanges ==
    Cardinality({i \in DOMAIN lastApply.adjustments :
                    lastApply.adjustments[i].type = "change_workflow"})

\* C16: every change_workflow applied, whatever its target and values, sets
\* every workflow's convergence_cycles to max(1, previous + 1); from a
\* positive count a call raises the count by the number of change_workflow
\* adjustments in it, and never lowers it.
C16_WorkflowCountGrows ==
    lastApply # NoApply =>
        \A i \in DOMAIN CallBase.workflows :
            LET before == CallBase.workflows[i].convergence_cycles
                after == CallResult.workflows[i].convergence_cycles
            IN  /\ after = Raised(before, WorkflowChanges)
                /\ before >= 1 => (after = before + WorkflowChanges /\ after >= before)

\* A call with two change_workflow adjustments of different targets on a
\* configuration with one count below 1 and one above: the first is floored
\* at 1 and then raised, the second raised twice.
C16_Witness ==
    /\ lastApply # NoApply
    /\ WorkflowChanges = 2
    /\ lastApply.adjustments[1].target # lastApply.adjustments[2].target
    /\ \E i, j \in DOMAIN CallBase.workflows :
          /\ CallBase.workflows[i].convergence_cycles < 0
          /\ CallResult.workflows[i].convergence_cycles = 2
          /\ CallBase.workflows[j].convergence_cycles >= 1
          /\ CallResult.workflows[j].convergence_cycles
                 = CallBase.workflows[j].convergence_cycles + 2

----------------------------------------------------------------------------
(* Claims about evaluate_cycle *)

Evaluated == evalCall.log # <<>>

\* The length of a text without its leading and trailing whitespace.
TrimmedLength(s) ==
    LET inked == {i \in 1..Len(s) : SubSeq(s, i, i) \notin Whitespace}
    IN  IF inked = {} THEN 0
        ELSE (CHOOSE i \in inked : \A j \in inked : j <= i)
             - (CHOOSE i \in inked : \A j \in inked : i <= j) + 1

\* C17: the progress score of an evaluation is min(1.0, 0.5 if success + 0.3
\* if the consensus changed + 0.2 if the trimmed summary is longer than 50
\* characters), so within [0, 1]; the consensus counts as changed only when a
\* previous text was given and differs from the content of the consensus
\* file, taken as empty when the file is absent.
C17_ProgressScoreFormula ==
    Evaluated =>
        LET log == evalCall.log[1]
            res == evalCall.result
            current == IF evalCall.consensus_file = <<>> THEN ""
                       ELSE evalCall.consensus_file[1]
            sum == (IF res.success THEN 5 ELSE 0)
                   + (IF res.consensus_changed THEN 3 ELSE 0)
                   + (IF TrimmedLength(log.summary) > 50 THEN 2 ELSE 0)
        IN  /\ res.progress_score = IF sum > 10 THEN 10 ELSE sum
            /\ res.progress_score \in 0..10
            /\ res.success <=> log.status = "ok"
            /\ res.consensus_changed <=>
                  /\ evalCall.previous_consensus # <<>>
                  /\ evalCall.previous_consensus[1] # current

\* An evaluation of a successful cycle whose summary is longer than 50
\* characters only with its surrounding whitespace, with a previous text
\* given and the consensus file absent: the score is 0.8.
C17_Witness ==
    /\ Evaluated
    /\ evalCall.log[1].status = "ok"
    /\ Len(evalCall.log[1].summary) > 50
    /\ TrimmedLength(evalCall.log[1].summary) = 50
    /\ evalCall.consensus_file = <<>>
    /\ evalCall.previous_consensus = <<"v1">>
    /\ evalCall.result.consensus_changed
    /\ evalCall.result.progress_score = 8

\* The text holds the word, whatever the case of its letters.
Mentions(s, word) ==
    \E i \in 1..(Len(s) - Len(word) + 1) :
        \A k \in 1..Len(word) :
            LowerChar(SubSeq(s, i + k - 1, i + k - 1)) = SubSeq(word, k, k)

\* C18: status timeout gives the issues [timeout]; status fail gives one tag,
\* by the first test that the summary passes: 'rate limit' or '429' ->
\* rate_limit, 'auth' or 'permission' -> auth_error, 'timeout' -> timeout,
\* else general_failure; any other status gives none.  A failed cycle with
\* summary 'Hit 429 rate limit' gives [rate_limit] and success false.
C18_IssueExtraction ==
    Evaluated =>
        LET log == evalCall.log[1]
            res == evalCall.result
        IN  /\ log.status = "timeout" => res.issues = <<"timeout">>
            /\ log.status = "fail" =>
                  res.issues =
                      IF Mentions(log.summary, "rate limit") \/ Mentions(log.summary, "429")
                      THEN <<"rate_limit">>
                      ELSE IF Mentions(log.summary, "auth")
                              \/ Mentions(log.summary, "permission")
                      THEN <<"auth_error">>
                      ELSE IF Mentions(log.summary, "timeout") THEN <<"timeout">>
                      ELSE <<"general_failure">>
            /\ log.status \notin {"timeout", "fail"} => res.issues = <<>>
            /\ (log.status = "fail" /\ log.summary = "Hit 429 rate limit") =>
                  (res.issues = <<"rate_limit">> /\ ~res.success)

\* The evaluation of a failed cycle with summary 'Hit 429 rate limit'.
C18_Witness ==
    /\ Evaluated
    /\ evalCall.log[1].status = "fail"
    /\ evalCall.log[1].summary = "Hit 429 rate limit"
    /\ evalCall.result.issues = <<"rate_limit">>
    /\ ~evalCall.result.success

----------------------------------------------------------------------------
(* Claims about check_command_safety *)

\* C19: 'rm -rf /tmp/x' is reported safe under a guardrail configuration
\* none of whose forbidden phrases the command contains, and 'rm -rf /' is
\* reported unsafe under every configuration.
C19_RemoveExamples ==
    safetyCall.called =>
        /\ (/\ safetyCall.command = "rm -rf /tmp/x"
            /\ \A i \in DOMAIN safetyCall.forbidden :
                  ~Mentions(safetyCall.command, lower(safetyCall.forbidden[i])))
              => safetyCall.result.safe
        /\ safetyCall.command = "rm -rf /" => ~safetyCall.result.safe

----------------------------------------------------------------------------
(* Claims about the consensus backups *)

\* C20: a backup leaves the consensus file as it was and its copy holds the
\* same content; a restore leaves the backup files as they were and, however
\* the consensus file was rewritten in between, leaves it with the content
\* it had when the backup that returned this backup path was made.
C20_BackupRestoreRoundTrip ==
    /\ (memCall.op = "backup" /\ memCall.error = "") =>
          /\ consensus = memCall.before
          /\ backups[memCall.stamp] = memCall.before
    /\ (memCall.op = "restore" /\ memCall.error = "") =>
          /\ backups = memCall.backupsBefore
          /\ \A t \in tickets : t.stamp = memCall.stamp => consensus = t.content

\* C29: every successful backup returns a path that no earlier backup
\* returned, and the backup file of every path returned so far holds the
\* content that was backed up when the path was returned.
C29_BackupsAdditive ==
    /\ (memCall.op = "backup" /\ memCall.error = "") =>
          memCall.backupsBefore[memCall.stamp] = Absent
    /\ \A t \in tickets : backups[t.stamp] = t.content

----------------------------------------------------------------------------
(* Claims about analyze_trends *)

\* The entries the window parameter names: the last min(window, len).
NamedWindow ==
    LastN(evaluations,
          IF trendCall.window < Len(evaluations) THEN trendCall.window
          ELSE Len(evaluations))

\* C25: for a non-empty list and a window parameter of 0 or more, the
\* results of analyze_trends are those over the last min(window, len)
\* entries, as many entries as that and in their order; for an empty list
\* the results are 0.0, 0.0, stagnant and no repeated issue.
C25_TrendsOverNamedWindow ==
    trendCall.called =>
        IF evaluations = <<>>
        THEN trendCall.result =
                [success_rate |-> Ratio(0, 1), avg_cost |-> Ratio(0, 1),
                 progress_trend |-> "stagnant", repeated_issues |-> <<>>]
        ELSE /\ trendCall.result.success_rate.den = Len(NamedWindow)
             /\ NamedWindow # <<>> => trendCall.result = trends_over(NamedWindow)

\* The entries analyze_trends looked at.
UsedWindow == SliceFrom(evaluations, -trendCall.window)

\* The trend of a window in exact arithmetic, scores in tenths.
ExactTrend(recent) ==
    IF Len(recent) < 2 THEN "stagnant"
    ELSE LET m == Len(recent) \div 2
             k == Len(recent) - m
             first == SumSeq(Progress(SubSeq(recent, 1, m)))
             second == SumSeq(Progress(SubSeq(recent, m + 1, Len(recent))))
         IN  IF second * m - first * k > m * k THEN "improving"
             ELSE IF second * m - first * k < -(m * k) THEN "declining"
             ELSE "stagnant"

\* C26: progress_trend is stagnant for a window of fewer than 2 entries;
\* otherwise, with the window split at len // 2 and delta the mean progress
\* of the second half minus that of the first, it is improving iff delta >
\* 0.1, declining iff delta < -0.1 and stagnant otherwise, a delta of
\* exactly 0.1 or -0.1 included.
C26_TrendThresholds ==
    (trendCall.called /\ evaluations # <<>>) =>
        trendCall.result.progress_trend = ExactTrend(UsedWindow)

----------------------------------------------------------------------------
(* Claims about the readers *)

\* The cost the log text carries: <<>> when the field is missing, empty or
\* no number.
CostOf(content) ==
    LET cost_str == dict_get(parse_cycle_log_content(content).fields, "cost", "")
    IN  IF cost_str # "" THEN float_of(cost_str) ELSE <<>>

ZeroCost == [kind |-> "finite", milli |-> 0]

\* C21: on every cycle log both parsers return a result, with the same
\* status, cycle number and summary; a cost that is missing or does not
\* parse is None in the CycleResult and 0.0 in the evaluation, a cost that
\* parses is the same number in both.
C21_ParsersAgree ==
    parseCall.called =>
        LET r == parseCall.result
            e == parseCall.evaluation
            cost == CostOf(parseCall.content)
        IN  /\ r.status = e.status
            /\ r.cycle_number = e.cycle
            /\ r.summary = e.summary
            /\ IF cost = <<>> THEN r.cost_usd = <<>> /\ e.cost = ZeroCost
               ELSE r.cost_usd = cost /\ e.cost = cost[1]

\* A log with a cycle number that is no integer, a cost that is no number,
\* a repeated status line and a summary with a second separator.
C21_Witness ==
    /\ parseCall.called
    /\ Contains(parseCall.content, "cycle: seven")
    /\ Contains(parseCall.content, "cost: n/a")
    /\ parseCall.result.status = "timeout"
    /\ parseCall.result.cost_usd = <<>>
    /\ parseCall.evaluation.cost = ZeroCost
    /\ parseCall.result.summary = "Hit 429: rate limit\n\nmore"

\* C22: get_status returns None exactly when there is no state file; for a
\* state file of any content it returns a status whose counts are the
\* integers of cycle_count and error_count, 0 when absent or no integer,
\* and whose status, model, engine and last_run are the values given, the
\* empty string when absent.
C22_StatusTotalOnStateFile ==
    statusCall.called =>
        /\ (statusCall.result = <<>>) <=> (statusCall.state_file = <<>>)
        /\ statusCall.state_file # <<>> =>
              /\ statusCall.result # <<>>
              /\ LET fields == parse_state_file(statusCall.state_file)
                     st == statusCall.result[1]
                     cycles == int_of(dict_get(fields, "cycle_count", ""))
                     errors == int_of(dict_get(fields, "error_count", ""))
                 IN  /\ st.loop_count = IF cycles # <<>> THEN cycles[1] ELSE 0
                     /\ st.error_count = IF errors # <<>> THEN errors[1] ELSE 0
                     /\ st.status = dict_get(fields, "status", "")
                     /\ st.model = dict_get(fields, "model", "")
                     /\ st.engine = dict_get(fields, "engine", "")
                     /\ st.last_run = dict_get(fields, "last_run", "")

\* A name of the form cycle-<N>.log.
IsCycleLogName(name) ==
    /\ StartsWith(name, "cycle-")
    /\ EndsWith(name, ".log")
    /\ Len(name) > Len("cycle-") + Len(".log")
    /\ \A i \in (Len("cycle-") + 1)..(Len(name) - Len(".log")) : IsDigit(CharAt(name, i))

NumberOf(name) ==
    DigitsValueFrom(SubSeq(name, Len("cycle-") + 1, Len(name) - Len(".log")), 0)

\* The cycle logs of the listing: the files named cycle-<N>.log.
CycleLogsOf(listing) ==
    {i \in DOMAIN listing : listing[i].is_file /\ IsCycleLogName(listing[i].name)}

\* C27: get_latest_cycle returns None when there is no logs directory or
\* no cycle log in it; otherwise it returns the parse of the file named
\* cycle-<N>.log with the greatest N among the files present.
C27_LatestByGreatestNumber ==
    latestCall.called =>
        IF latestCall.log_dir = <<>> \/ CycleLogsOf(latestCall.log_dir[1]) = {}
        THEN latestCall.result = <<>>
        ELSE LET listing == latestCall.log_dir[1] IN
             \E i \in CycleLogsOf(listing) :
                /\ \A j \in CycleLogsOf(listing) :
                      NumberOf(listing[j].name) <= NumberOf(listing[i].name)
                /\ latestCall.result = <<parse_cycle_log(listing[i].content)>>

====
